---- MODULE Spec2Model ----
(***************************************************************************)
(* tui-notes: the Note Store (src/src/note.rs), the Encryption Manager     *)
(* (src/src/encryption.rs) and the App that drives them from key events    *)
(* (src/src/app.rs), as state machines over one backing file.              *)
(*                                                                         *)
(* Cryptography is modelled symbolically: a key is the pair it was derived *)
(* from, an AEAD ciphertext is a sealed box that opens only under the key  *)
(* and nonce that sealed it.  Byte lengths are kept as integers so that    *)
(* the size caps of the code are decided as the code decides them.         *)
(***************************************************************************)
EXTENDS Integers, Sequences, FiniteSets, TLC

\* ------------------------------------------------------------------ bounds
\* number of uuids Uuid::new_v4 hands out in one behaviour
MaxNotes == 1
\* the clock Utc::now() reads takes the values 0..MaxTime
MaxTime == 1
\* salts OsRng can produce are 1..NumSalts, nonces 1..NumNonces
NumSalts == 2
NumNonces == 2
\* calls made on the store in one behaviour
MaxCalls == 5

\* ------------------------------------------------------- program constants
MIN_PASSWORD_LENGTH == 8
MAX_PASSWORD_LENGTH == 256
MAX_CONTENT_SIZE == 100 * 1024 * 1024
MAGIC_HEADER == "ENCRYPTED_NOTES"
\* note.rs:109, the cap unlock_encryption puts on the file it reads
MAX_FILE_SIZE == 110 * 1024 * 1024
SALT_LEN == 16
NONCE_LEN == 12
TAG_LEN == 16

\* ------------------------------------------------------------- text values
RECURSIVE Rep(_, _)
Rep(s, n) ==
    IF n = 0 THEN ""
    ELSE IF n % 2 = 0 THEN LET half == Rep(s, n \div 2) IN half \o half
    ELSE s \o Rep(s, n - 1)

\* Two bodies too long to write out: LargeContent is a 90 MiB body (under
\* the encryption cap), HugeContent one byte over the cap.
LargeContent == "<<90MiB body>>"
HugeContent == "<<100MiB+1 body>>"
LargeSize == 90 * 1024 * 1024
HugeSize == MAX_CONTENT_SIZE + 1

\* Two passwords outside ASCII, each character two bytes in UTF-8: one of
\* 5 characters, one of 200.
AccentedPassword == "<<5 chars of 2 bytes>>"
WidePassword == "<<200 chars of 2 bytes>>"

\* str::len: the length in bytes of the UTF-8 encoding
StrLen(s) ==
    IF s = LargeContent THEN LargeSize
    ELSE IF s = HugeContent THEN HugeSize
    ELSE IF s = AccentedPassword THEN 2 * 5
    ELSE IF s = WidePassword THEN 2 * 200
    ELSE Len(s)

\* str::to_lowercase, on the letters A to Z
UpperCase == "ABCDEFGHIJKLMNOPQRSTUVWXYZ"
LowerCase == "abcdefghijklmnopqrstuvwxyz"
LowerChar(c) ==
    IF \E i \in 1..Len(UpperCase) : SubSeq(UpperCase, i, i) = c
    THEN LET i == CHOOSE i \in 1..Len(UpperCase) : SubSeq(UpperCase, i, i) = c
         IN  SubSeq(LowerCase, i, i)
    ELSE c
RECURSIVE to_lowercase(_)
to_lowercase(s) ==
    IF Len(s) = 0 THEN ""
    ELSE LowerChar(SubSeq(s, 1, 1)) \o to_lowercase(SubSeq(s, 2, Len(s)))

\* str::contains: pat occurs in s; the empty pattern occurs in every string
contains(s, pat) ==
    \E i \in 1..(Len(s) - Len(pat) + 1) : SubSeq(s, i, i + Len(pat) - 1) = pat

Titles == {"T"}
\* what a caller searches for
Queries == {"", "t", "T", "c"}
Contents == {"C", LargeContent, HugeContent}

ShortPassword == "short"
GoodPassword == "correct-horse-battery"
OtherPassword == "hunter2-hunter2"
LongPassword == Rep("a", MAX_PASSWORD_LENGTH + 1)
Passwords == {ShortPassword, GoodPassword, OtherPassword, LongPassword}

\* ------------------------------------------------------------ io::Result
Ok == [kind |-> "Ok", msg |-> ""]
Err(kind, msg) == [kind |-> kind, msg |-> msg]

\* Option
None == [none |-> TRUE]
Some(x) == [some |-> x]

\* ------------------------------------------------------------ byte strings
\* [u8; n] drawn from OsRng: an identity and a length
Bytes(id, len) == [id |-> id, len |-> len]
Salts == {Bytes(i, SALT_LEN) : i \in 1..NumSalts}
Nonces == {Bytes(i, NONCE_LEN) : i \in 1..NumNonces}

\* base64::STANDARD: encode wraps the bytes, decode unwraps them or fails
B64Encode(bytes) == [b64 |-> bytes]
NotBase64 == [notb64 |-> "!!"]
B64Decode(s) ==
    IF "b64" \in DOMAIN s THEN [ok |-> TRUE, bytes |-> s.b64] ELSE [ok |-> FALSE]
B64Len(n) == 4 * ((n + 2) \div 3)

\* ------------------------------------------------------------------- Note
NoteNew(id, title, content, t) ==
    [id |-> id, title |-> title, content |-> content,
     created_at |-> t, updated_at |-> t, pinned |-> FALSE]

update_content(note, content, t) ==
    [note EXCEPT !.content = content, !.updated_at = t]

update_title(note, title, t) ==
    [note EXCEPT !.title = title, !.updated_at = t]

\* toggle_pin that flips the flag and leaves updated_at alone
toggle_pin_keeps_time(note, t) ==
    [note EXCEPT !.pinned = ~note.pinned]

toggle_pin(note, t) ==
    [note EXCEPT !.pinned = ~note.pinned, !.updated_at = t]

\* ------------------------------------------------------- serde_json, notes
\* bytes one entry of the pretty-printed map takes: the key, the six field
\* names, two RFC 3339 timestamps and the punctuation come to about 258
NoteJsonLen(member) == 258 + StrLen(member.v.title) + StrLen(member.v.content)

RECURSIVE MembersLen(_)
MembersLen(S) ==
    IF S = {} THEN 0
    ELSE LET x == CHOOSE y \in S : TRUE IN NoteJsonLen(x) + MembersLen(S \ {x})

\* serde_json::to_string_pretty(&self.notes): an object with one member per
\* map entry
to_string_pretty(notes) ==
    [kind |-> "notes",
     members |-> {[k |-> id, v |-> notes[id]] : id \in DOMAIN notes}]

\* serde_json::from_str::<HashMap<String, Note>>
from_str_notes(text) ==
    IF text.kind = "notes"
    THEN [ok |-> TRUE,
          notes |-> [id \in {m.k : m \in text.members} |->
                        (CHOOSE m \in text.members : m.k = id).v]]
    ELSE [ok |-> FALSE]

\* serde_json::from_str::<EncryptedFile>
from_str_encrypted(text) ==
    IF text.kind = "envelope"
    THEN [ok |-> TRUE, magic |-> text.magic, salt |-> text.salt,
          nonce |-> text.nonce, data |-> text.data]
    ELSE [ok |-> FALSE]

\* serde_json::to_string_pretty(&encrypted)
encrypted_to_string(enc) ==
    [kind |-> "envelope", magic |-> enc.magic, salt |-> enc.salt,
     nonce |-> enc.nonce, data |-> enc.data]

\* ------------------------------------------------------------- the cipher
NoKey == [none |-> TRUE]

\* Argon2id(password, salt): a key is determined by, and determines, the
\* pair it was derived from
derive_key(password, salt) == [pw |-> password, salt |-> salt]

\* a seal that does not depend on the nonce
Seal_ignores_nonce(key, nonce, data) ==
    [k |-> key, n |-> Bytes(0, NONCE_LEN), pt |-> data]

\* ChaCha20Poly1305 seal and open
Seal(key, nonce, data) == [k |-> key, n |-> nonce, pt |-> data]
Tampered == [tampered |-> TRUE]

\* an open that does not authenticate the key
Open_under_any_key(key, nonce, ct) ==
    IF "pt" \in DOMAIN ct /\ ct.n = nonce
    THEN [ok |-> TRUE, data |-> ct.pt]
    ELSE [ok |-> FALSE]

Open(key, nonce, ct) ==
    IF "pt" \in DOMAIN ct /\ ct.k = key /\ ct.n = nonce
    THEN [ok |-> TRUE, data |-> ct.pt]
    ELSE [ok |-> FALSE]

\* a buffer of n bytes that is not a notes document
Blob(n) == [kind |-> "blob", len |-> n]

\* length in bytes of a text: a notes document, a buffer, or other
DataLen(text) ==
    IF text.kind = "notes" THEN 2 + MembersLen(text.members)
    ELSE IF text.kind = "blob" THEN text.len
    ELSE 7
CipherLen(ct) == IF "pt" \in DOMAIN ct THEN DataLen(ct.pt) + TAG_LEN ELSE TAG_LEN
\* a base64 field of the envelope, of bytes and of ciphertext
BytesFieldLen(s) == IF "b64" \in DOMAIN s THEN B64Len(s.b64.len) ELSE 2
DataFieldLen(s) == IF "b64" \in DOMAIN s THEN B64Len(CipherLen(s.b64)) ELSE 2
\* str::len of the file's content; the envelope's field names and
\* punctuation come to about 60 bytes
ContentLen(text) ==
    IF text.kind = "envelope"
    THEN 60 + StrLen(text.magic) + BytesFieldLen(text.salt)
            + BytesFieldLen(text.nonce) + DataFieldLen(text.data)
    ELSE IF text.kind = "empty" THEN 1
    ELSE DataLen(text)

\* ---------------------------------------------------- EncryptionManager
\* unlock that also turns away a password of exactly the minimum length
unlock_rejects_minimum(key, password, salt) ==
    IF StrLen(password) <= MIN_PASSWORD_LENGTH
    THEN [key |-> key, res |-> Err("InvalidInput", "password too short")]
    ELSE IF StrLen(password) > MAX_PASSWORD_LENGTH
    THEN [key |-> key, res |-> Err("InvalidInput", "password too long")]
    ELSE IF salt.len # SALT_LEN
    THEN [key |-> key, res |-> Err("InvalidInput", "invalid salt length")]
    ELSE [key |-> derive_key(password, salt), res |-> Ok]

\* unlock that validates and derives, and does not keep the key
unlock_forgets_key(key, password, salt) ==
    IF StrLen(password) < MIN_PASSWORD_LENGTH
    THEN [key |-> key, res |-> Err("InvalidInput", "password too short")]
    ELSE IF StrLen(password) > MAX_PASSWORD_LENGTH
    THEN [key |-> key, res |-> Err("InvalidInput", "password too long")]
    ELSE IF salt.len # SALT_LEN
    THEN [key |-> key, res |-> Err("InvalidInput", "invalid salt length")]
    ELSE [key |-> key, res |-> Ok]

\* unlock that validates, and keeps the key it already holds
unlock_keeps_first_key(key, password, salt) ==
    IF StrLen(password) < MIN_PASSWORD_LENGTH
    THEN [key |-> key, res |-> Err("InvalidInput", "password too short")]
    ELSE IF StrLen(password) > MAX_PASSWORD_LENGTH
    THEN [key |-> key, res |-> Err("InvalidInput", "password too long")]
    ELSE IF salt.len # SALT_LEN
    THEN [key |-> key, res |-> Err("InvalidInput", "invalid salt length")]
    ELSE [key |-> IF key = NoKey THEN derive_key(password, salt) ELSE key,
          res |-> Ok]

\* EncryptionManager::unlock: the key afterwards and the result
unlock(key, password, salt) ==
    IF StrLen(password) < MIN_PASSWORD_LENGTH
    THEN [key |-> key, res |-> Err("InvalidInput", "password too short")]
    ELSE IF StrLen(password) > MAX_PASSWORD_LENGTH
    THEN [key |-> key, res |-> Err("InvalidInput", "password too long")]
    ELSE IF salt.len # SALT_LEN
    THEN [key |-> key, res |-> Err("InvalidInput", "invalid salt length")]
    ELSE [key |-> derive_key(password, salt), res |-> Ok]

\* lock that leaves the key where it is
lock_keeps_key(key) == key

\* EncryptionManager::lock: the key afterwards
lock(key) == NoKey

is_unlocked(key) == key # NoKey

\* encrypt without the cap on the buffer
encrypt_without_cap(key, data, salt, nonce) ==
    IF salt.len # SALT_LEN
    THEN [res |-> Err("InvalidInput", "invalid salt length")]
    ELSE IF key = NoKey
    THEN [res |-> Err("PermissionDenied", "not unlocked")]
    ELSE [res |-> Ok,
          enc |-> [magic |-> MAGIC_HEADER,
                   salt |-> B64Encode(salt),
                   nonce |-> B64Encode(nonce),
                   data |-> B64Encode(Seal(key, nonce, data))]]

\* EncryptionManager::encrypt, with the nonce generate_nonce draws
encrypt(key, data, salt, nonce) ==
    IF DataLen(data) > MAX_CONTENT_SIZE
    THEN [res |-> Err("InvalidInput", "content too large")]
    ELSE IF salt.len # SALT_LEN
    THEN [res |-> Err("InvalidInput", "invalid salt length")]
    ELSE IF key = NoKey
    THEN [res |-> Err("PermissionDenied", "not unlocked")]
    ELSE [res |-> Ok,
          enc |-> [magic |-> MAGIC_HEADER,
                   salt |-> B64Encode(salt),
                   nonce |-> B64Encode(nonce),
                   data |-> B64Encode(Seal(key, nonce, data))]]

\* decrypt whose cap on the ciphertext leaves out the tag
decrypt_caps_without_tag(key, encrypted) ==
    IF key = NoKey
    THEN [res |-> Err("PermissionDenied", "not unlocked")]
    ELSE IF encrypted.magic # MAGIC_HEADER
    THEN [res |-> Err("InvalidData", "invalid format")]
    ELSE LET nonce_bytes == B64Decode(encrypted.nonce)
             ciphertext == B64Decode(encrypted.data)
         IN  IF ~nonce_bytes.ok \/ ~ciphertext.ok
             THEN [res |-> Err("InvalidData", "invalid format")]
             ELSE IF nonce_bytes.bytes.len # NONCE_LEN
                     \/ CipherLen(ciphertext.bytes) > MAX_CONTENT_SIZE
             THEN [res |-> Err("InvalidData", "invalid format")]
             ELSE LET opened == Open(key, nonce_bytes.bytes, ciphertext.bytes)
                  IN  IF opened.ok
                      THEN [res |-> Ok, data |-> opened.data]
                      ELSE [res |-> Err("InvalidData", "decryption failed")]

\* decrypt that reports every failure after the magic as "decryption failed"
decrypt_one_message(key, encrypted) ==
    IF key = NoKey
    THEN [res |-> Err("PermissionDenied", "not unlocked")]
    ELSE IF encrypted.magic # MAGIC_HEADER
    THEN [res |-> Err("InvalidData", "invalid format")]
    ELSE LET nonce_bytes == B64Decode(encrypted.nonce)
             ciphertext == B64Decode(encrypted.data)
         IN  IF ~nonce_bytes.ok \/ ~ciphertext.ok
             THEN [res |-> Err("InvalidData", "decryption failed")]
             ELSE IF nonce_bytes.bytes.len # NONCE_LEN
                     \/ CipherLen(ciphertext.bytes) > MAX_CONTENT_SIZE + TAG_LEN
             THEN [res |-> Err("InvalidData", "decryption failed")]
             ELSE LET opened == Open(key, nonce_bytes.bytes, ciphertext.bytes)
                  IN  IF opened.ok
                      THEN [res |-> Ok, data |-> opened.data]
                      ELSE [res |-> Err("InvalidData", "decryption failed")]

\* EncryptionManager::decrypt
decrypt(key, encrypted) ==
    IF key = NoKey
    THEN [res |-> Err("PermissionDenied", "not unlocked")]
    ELSE IF encrypted.magic # MAGIC_HEADER
    THEN [res |-> Err("InvalidData", "invalid format")]
    ELSE LET nonce_bytes == B64Decode(encrypted.nonce)
             ciphertext == B64Decode(encrypted.data)
         IN  IF ~nonce_bytes.ok \/ ~ciphertext.ok
             THEN [res |-> Err("InvalidData", "invalid format")]
             ELSE IF nonce_bytes.bytes.len # NONCE_LEN
                     \/ CipherLen(ciphertext.bytes) > MAX_CONTENT_SIZE + TAG_LEN
             THEN [res |-> Err("InvalidData", "invalid format")]
             ELSE LET opened == Open(key, nonce_bytes.bytes, ciphertext.bytes)
                  IN  IF opened.ok
                      THEN [res |-> Ok, data |-> opened.data]
                      ELSE [res |-> Err("InvalidData", "decryption failed")]

\* the steps of decrypt with the magic compared after the fields are decoded
decrypt_steps_magic_last(key, encrypted) ==
    IF key = NoKey THEN << >>
    ELSE IF ~B64Decode(encrypted.nonce).ok THEN <<"decode_nonce">>
    ELSE IF ~B64Decode(encrypted.data).ok
    THEN <<"decode_nonce", "decode_data">>
    ELSE IF encrypted.magic # MAGIC_HEADER
    THEN <<"decode_nonce", "decode_data", "ct_eq">>
    ELSE IF B64Decode(encrypted.nonce).bytes.len # NONCE_LEN
            \/ CipherLen(B64Decode(encrypted.data).bytes)
                  > MAX_CONTENT_SIZE + TAG_LEN
    THEN <<"decode_nonce", "decode_data", "ct_eq">>
    ELSE <<"decode_nonce", "decode_data", "ct_eq", "cipher_decrypt">>

\* EncryptionManager::decrypt: what it runs, in order, before it returns:
\* the comparison of the magic, the two base64 decodings, the cipher
decrypt_steps(key, encrypted) ==
    IF key = NoKey THEN << >>
    ELSE IF encrypted.magic # MAGIC_HEADER THEN <<"ct_eq">>
    ELSE IF ~B64Decode(encrypted.nonce).ok THEN <<"ct_eq", "decode_nonce">>
    ELSE IF ~B64Decode(encrypted.data).ok
    THEN <<"ct_eq", "decode_nonce", "decode_data">>
    ELSE IF B64Decode(encrypted.nonce).bytes.len # NONCE_LEN
            \/ CipherLen(B64Decode(encrypted.data).bytes)
                  > MAX_CONTENT_SIZE + TAG_LEN
    THEN <<"ct_eq", "decode_nonce", "decode_data">>
    ELSE <<"ct_eq", "decode_nonce", "decode_data", "cipher_decrypt">>

\* is_file_encrypted that does not compare the magic
is_file_encrypted_any_magic(content) ==
    from_str_encrypted(content).ok

\* EncryptionManager::is_file_encrypted
is_file_encrypted(content) ==
    LET encrypted == from_str_encrypted(content)
    IN  IF encrypted.ok THEN encrypted.magic = MAGIC_HEADER ELSE FALSE

\* ------------------------------------------------------------- the file
Absent == [kind |-> "absent"]
\* Path::exists
exists(f) == f.kind # "absent"
\* fs::read_to_string fails on a file that is not UTF-8 text
readable(f) == f.kind # "binary"

\* ------------------------------------------------------------ NoteManager
NoManager == [constructed |-> FALSE]

\* the struct NoteManager::new builds before it loads
EmptyManager(encryption_enabled) ==
    [notes |-> << >>,
     sorted_note_ids |-> << >>,
     cache_dirty |-> TRUE,
     key |-> NoKey,
     encryption_enabled |-> encryption_enabled,
     salt |-> None]

\* is_ready that does not ask the Encryption Manager
is_ready_always(m) == TRUE

is_ready(m) ==
    IF m.encryption_enabled THEN is_unlocked(m.key) ELSE TRUE

\* save_notes that creates (truncates) the file before it encrypts
save_notes_truncates_first(m, f, nonce) ==
    IF m.encryption_enabled /\ m.key = NoKey
    THEN [file |-> f,
          res |-> Err("PermissionDenied", "notes manager is not ready")]
    ELSE LET json == to_string_pretty(m.notes)
         IN  IF m.encryption_enabled
             THEN IF m.salt = None
                  THEN [file |-> [kind |-> "empty"],
                        res |-> Err("InvalidData",
                                    "no salt available for encryption")]
                  ELSE LET e == encrypt(m.key, json, m.salt.some, nonce)
                       IN  IF e.res # Ok
                           THEN [file |-> [kind |-> "empty"], res |-> e.res]
                           ELSE [file |-> encrypted_to_string(e.enc),
                                 res |-> Ok]
             ELSE [file |-> json, res |-> Ok]

\* save_notes that hands encrypt a salt of its own
save_notes_own_salt(m, f, nonce) ==
    IF ~is_ready(m)
    THEN [file |-> f,
          res |-> Err("PermissionDenied", "notes manager is not ready")]
    ELSE LET json == to_string_pretty(m.notes)
         IN  IF m.encryption_enabled
             THEN IF m.salt = None
                  THEN [file |-> f,
                        res |-> Err("InvalidData",
                                    "no salt available for encryption")]
                  ELSE LET e == encrypt(m.key, json, Bytes(0, SALT_LEN), nonce)
                       IN  IF e.res # Ok
                           THEN [file |-> f, res |-> e.res]
                           ELSE [file |-> encrypted_to_string(e.enc),
                                 res |-> Ok]
             ELSE [file |-> json, res |-> Ok]

\* NoteManager::save_notes: the file afterwards and the result
save_notes(m, f, nonce) ==
    IF ~is_ready(m)
    THEN [file |-> f,
          res |-> Err("PermissionDenied", "notes manager is not ready")]
    ELSE LET json == to_string_pretty(m.notes)
         IN  IF m.encryption_enabled
             THEN IF m.salt = None
                  THEN [file |-> f,
                        res |-> Err("InvalidData",
                                    "no salt available for encryption")]
                  ELSE LET e == encrypt(m.key, json, m.salt.some, nonce)
                       IN  IF e.res # Ok
                           THEN [file |-> f, res |-> e.res]
                           ELSE [file |-> encrypted_to_string(e.enc),
                                 res |-> Ok]
             ELSE [file |-> json, res |-> Ok]

\* load_notes that adds the notes of the file to those already held
load_notes_merges(m, f, nonce) ==
    IF ~exists(f) THEN [m |-> m, file |-> f, res |-> Ok]
    ELSE IF ~readable(f)
    THEN [m |-> m, file |-> f,
          res |-> Err("InvalidData", "stream did not contain valid UTF-8")]
    ELSE IF f.kind = "empty" THEN [m |-> m, file |-> f, res |-> Ok]
    ELSE
    LET picked ==
          IF m.encryption_enabled
          THEN IF ~is_unlocked(m.key)
               THEN [res |-> Err("PermissionDenied",
                                 "encryption key not available")]
               ELSE IF is_file_encrypted(f)
               THEN LET d == decrypt(m.key, from_str_encrypted(f))
                    IN  IF d.res # Ok
                        THEN [res |-> d.res]
                        ELSE [res |-> Ok, json |-> d.data,
                              needs_migration |-> FALSE]
               ELSE [res |-> Ok, json |-> f, needs_migration |-> TRUE]
          ELSE IF is_file_encrypted(f)
               THEN [res |-> Err("InvalidData", "ENCRYPTED_FILE_DETECTED")]
               ELSE [res |-> Ok, json |-> f, needs_migration |-> FALSE]
    IN  IF picked.res # Ok THEN [m |-> m, file |-> f, res |-> picked.res]
        ELSE LET parsed == from_str_notes(picked.json)
             IN  IF ~parsed.ok
                 THEN [m |-> m, file |-> f,
                       res |-> Err("InvalidData",
                                   "failed to parse notes data")]
                 ELSE LET loaded == [m EXCEPT !.notes = m.notes @@ parsed.notes,
                                              !.cache_dirty = TRUE]
                      IN  IF picked.needs_migration
                          THEN LET s == save_notes(loaded, f, nonce)
                               IN  [m |-> loaded, file |-> s.file,
                                    res |-> s.res]
                          ELSE [m |-> loaded, file |-> f, res |-> Ok]

\* NoteManager::load_notes: the manager and the file afterwards, the result
load_notes(m, f, nonce) ==
    IF ~exists(f) THEN [m |-> m, file |-> f, res |-> Ok]
    ELSE IF ~readable(f)
    THEN [m |-> m, file |-> f,
          res |-> Err("InvalidData", "stream did not contain valid UTF-8")]
    ELSE IF f.kind = "empty" THEN [m |-> m, file |-> f, res |-> Ok]
    ELSE
    LET picked ==
          IF m.encryption_enabled
          THEN IF ~is_unlocked(m.key)
               THEN [res |-> Err("PermissionDenied",
                                 "encryption key not available")]
               ELSE IF is_file_encrypted(f)
               THEN LET d == decrypt(m.key, from_str_encrypted(f))
                    IN  IF d.res # Ok
                        THEN [res |-> d.res]
                        ELSE [res |-> Ok, json |-> d.data,
                              needs_migration |-> FALSE]
               ELSE [res |-> Ok, json |-> f, needs_migration |-> TRUE]
          ELSE IF is_file_encrypted(f)
               THEN [res |-> Err("InvalidData", "ENCRYPTED_FILE_DETECTED")]
               ELSE [res |-> Ok, json |-> f, needs_migration |-> FALSE]
    IN  IF picked.res # Ok THEN [m |-> m, file |-> f, res |-> picked.res]
        ELSE LET parsed == from_str_notes(picked.json)
             IN  IF ~parsed.ok
                 THEN [m |-> m, file |-> f,
                       res |-> Err("InvalidData",
                                   "failed to parse notes data")]
                 ELSE LET loaded == [m EXCEPT !.notes = parsed.notes,
                                              !.cache_dirty = TRUE]
                      IN  IF picked.needs_migration
                          THEN LET s == save_notes(loaded, f, nonce)
                               IN  [m |-> loaded, file |-> s.file,
                                    res |-> s.res]
                          ELSE [m |-> loaded, file |-> f, res |-> Ok]

\* new that defers the load whatever the configuration
new_defers_load(encryption_enabled, f, nonce) ==
    [m |-> EmptyManager(encryption_enabled), file |-> f, res |-> Ok]

\* NoteManager::new: Err leaves no manager
new(encryption_enabled, f, nonce) ==
    LET manager0 == EmptyManager(encryption_enabled)
    IN  IF ~encryption_enabled
        THEN LET l == load_notes(manager0, f, nonce)
             IN  IF l.res # Ok
                 THEN [m |-> NoManager, file |-> l.file, res |-> l.res]
                 ELSE l
        ELSE [m |-> manager0, file |-> f, res |-> Ok]

\* unlock_encryption that generates a salt for a new vault and keeps the
\* salt the store already holds
unlock_encryption_keeps_salt(m, f, password, fresh_salt, nonce) ==
    IF ~m.encryption_enabled
    THEN [m |-> m, file |-> f,
          res |-> Err("InvalidInput", "encryption not enabled")]
    ELSE IF StrLen(password) < 8
    THEN [m |-> m, file |-> f,
          res |-> Err("InvalidInput", "password too short")]
    ELSE IF StrLen(password) > 256
    THEN [m |-> m, file |-> f,
          res |-> Err("InvalidInput", "password too long")]
    ELSE IF ~exists(f)
    THEN LET u == unlock(m.key, password, fresh_salt)
         IN  IF u.res # Ok
             THEN [m |-> [m EXCEPT !.key = u.key], file |-> f, res |-> u.res]
             ELSE [m |-> [m EXCEPT !.key = u.key,
                                   !.salt = IF m.salt = None
                                            THEN Some(fresh_salt)
                                            ELSE m.salt],
                   file |-> f, res |-> Ok]
    ELSE IF ~readable(f)
    THEN [m |-> m, file |-> f,
          res |-> Err("PermissionDenied", "cannot read file")]
    ELSE IF ContentLen(f) > MAX_FILE_SIZE
    THEN [m |-> m, file |-> f, res |-> Err("InvalidData", "file too large")]
    ELSE IF is_file_encrypted(f)
    THEN LET encrypted == from_str_encrypted(f)
             salt == B64Decode(encrypted.salt)
         IN  IF ~encrypted.ok \/ ~salt.ok
             THEN [m |-> m, file |-> f,
                   res |-> Err("InvalidData", "invalid file format")]
             ELSE IF salt.bytes.len # 16
             THEN [m |-> m, file |-> f,
                   res |-> Err("InvalidData", "invalid file format")]
             ELSE LET u == unlock(m.key, password, salt.bytes)
                  IN  IF u.res # Ok
                      THEN [m |-> [m EXCEPT !.key = u.key], file |-> f,
                            res |-> u.res]
                      ELSE load_notes([m EXCEPT !.key = u.key,
                                                !.salt = Some(salt.bytes)],
                                      f, nonce)
    ELSE [m |-> m, file |-> f,
          res |-> Err("InvalidData", "file is not encrypted")]

\* NoteManager::unlock_encryption, with the salt generate_salt draws
unlock_encryption(m, f, password, fresh_salt, nonce) ==
    IF ~m.encryption_enabled
    THEN [m |-> m, file |-> f,
          res |-> Err("InvalidInput", "encryption not enabled")]
    ELSE IF StrLen(password) < 8
    THEN [m |-> m, file |-> f,
          res |-> Err("InvalidInput", "password too short")]
    ELSE IF StrLen(password) > 256
    THEN [m |-> m, file |-> f,
          res |-> Err("InvalidInput", "password too long")]
    ELSE IF ~exists(f)
    THEN LET u == unlock(m.key, password, fresh_salt)
         IN  IF u.res # Ok
             THEN [m |-> [m EXCEPT !.key = u.key], file |-> f, res |-> u.res]
             ELSE [m |-> [m EXCEPT !.key = u.key, !.salt = Some(fresh_salt)],
                   file |-> f, res |-> Ok]
    ELSE IF ~readable(f)
    THEN [m |-> m, file |-> f,
          res |-> Err("PermissionDenied", "cannot read file")]
    ELSE IF ContentLen(f) > MAX_FILE_SIZE
    THEN [m |-> m, file |-> f, res |-> Err("InvalidData", "file too large")]
    ELSE IF is_file_encrypted(f)
    THEN LET encrypted == from_str_encrypted(f)
             salt == B64Decode(encrypted.salt)
         IN  IF ~encrypted.ok \/ ~salt.ok
             THEN [m |-> m, file |-> f,
                   res |-> Err("InvalidData", "invalid file format")]
             ELSE IF salt.bytes.len # 16
             THEN [m |-> m, file |-> f,
                   res |-> Err("InvalidData", "invalid file format")]
             ELSE LET u == unlock(m.key, password, salt.bytes)
                  IN  IF u.res # Ok
                      THEN [m |-> [m EXCEPT !.key = u.key], file |-> f,
                            res |-> u.res]
                      ELSE load_notes([m EXCEPT !.key = u.key,
                                                !.salt = Some(salt.bytes)],
                                      f, nonce)
    ELSE [m |-> m, file |-> f,
          res |-> Err("InvalidData", "file is not encrypted")]

\* add_note that keeps the new note only
add_note_alone(m, id, title, content, t) ==
    [m EXCEPT !.notes = [k \in {id} |-> NoteNew(id, title, content, t)],
              !.cache_dirty = TRUE]

\* NoteManager::add_note, with the uuid and the time Note::new draws
add_note(m, id, title, content, t) ==
    [m EXCEPT !.notes = [k \in DOMAIN m.notes \cup {id} |->
                            IF k = id THEN NoteNew(id, title, content, t)
                            ELSE m.notes[k]],
              !.cache_dirty = TRUE]

\* get_note_mut that hands out the note and leaves the flag alone
get_note_mut_keeps_clean(m, id) == m

\* NoteManager::get_note_mut: the manager once the handle is taken
get_note_mut(m, id) ==
    IF id \in DOMAIN m.notes THEN [m EXCEPT !.cache_dirty = TRUE] ELSE m

\* delete_note that forgets the dirty flag
delete_note_keeps_cache(m, id) ==
    IF id \in DOMAIN m.notes
    THEN [m EXCEPT !.notes = [k \in DOMAIN m.notes \ {id} |-> m.notes[k]]]
    ELSE m

\* delete_note that marks the cache dirty whether or not it removed a note
delete_note_always_dirty(m, id) ==
    [m EXCEPT !.notes = [k \in DOMAIN m.notes \ {id} |-> m.notes[k]],
              !.cache_dirty = TRUE]

\* NoteManager::delete_note
delete_note(m, id) ==
    IF id \in DOMAIN m.notes
    THEN [m EXCEPT !.notes = [k \in DOMAIN m.notes \ {id} |-> m.notes[k]],
                   !.cache_dirty = TRUE]
    ELSE m

\* the comparator with a and b swapped in the updated_at comparison
BeforeOldestFirst(a, b) ==
    \/ a.pinned /\ ~b.pinned
    \/ a.pinned = b.pinned /\ a.updated_at < b.updated_at

\* the comparator of update_sorted_cache: a sorts strictly before b
Before(a, b) ==
    \/ a.pinned /\ ~b.pinned
    \/ a.pinned = b.pinned /\ a.updated_at > b.updated_at

OrdersOf(S) ==
    {p \in [1..Cardinality(S) -> S] : \A x \in S : \E i \in DOMAIN p : p[i] = x}

\* what sort_by can leave: HashMap::iter yields the entries in an order of
\* its own, and the stable sort keeps that order among equal notes
SortedOrders(notes) ==
    {p \in OrdersOf(DOMAIN notes) :
        \A i, j \in DOMAIN p : i < j => ~Before(notes[p[j]], notes[p[i]])}

\* NoteManager::update_sorted_cache, order being what the sort leaves
update_sorted_cache(m, order) ==
    IF ~m.cache_dirty THEN m
    ELSE [m EXCEPT !.sorted_note_ids = order, !.cache_dirty = FALSE]

\* NoteManager::get_all_notes: the ids of the notes it returns, in order
get_all_notes(m) ==
    SelectSeq(m.sorted_note_ids, LAMBDA id : id \in DOMAIN m.notes)

\* search_notes that compares the texts as they are
search_notes_case_sensitive(m, query) ==
    IF query = "" THEN get_all_notes(m)
    ELSE SelectSeq(get_all_notes(m),
                   LAMBDA id : \/ contains(m.notes[id].title, query)
                               \/ contains(m.notes[id].content, query))

\* NoteManager::search_notes, once update_sorted_cache has run: the ids of
\* the notes it returns, in order
search_notes(m, query) ==
    IF query = "" THEN get_all_notes(m)
    ELSE LET query_lower == to_lowercase(query)
         IN  SelectSeq(get_all_notes(m),
                       LAMBDA id :
                          \/ contains(to_lowercase(m.notes[id].title),
                                      query_lower)
                          \/ contains(to_lowercase(m.notes[id].content),
                                      query_lower))

\* export_plaintext that does not ask whether the store is ready
export_plaintext_unguarded(m) ==
    [res |-> Ok, wrote |-> to_string_pretty(m.notes)]

\* NoteManager::export_plaintext: what goes to the destination
export_plaintext(m) ==
    IF ~is_ready(m)
    THEN [res |-> Err("PermissionDenied", "notes manager is not ready")]
    ELSE [res |-> Ok, wrote |-> to_string_pretty(m.notes)]

\* ------------------------------------------------------------------ state
VARIABLES
    manager,    \* the NoteManager of the running session, or NoManager
    file,       \* the content of notes_file
    now,        \* the last reading of Utc::now()
    uuids,      \* how many uuids have been drawn
    calls,      \* how many calls have been made
    lastOp,     \* the last call made and what it returned
    trail,      \* history: "locked" until an unlock succeeds in this
                \* session, then "created" or "opened" (how it succeeded)
                \* while only notes are edited, "used" after any other call
    encryption, \* the key of an EncryptionManager used on its own
    sealed,     \* history: what encrypt has returned to that manager's
                \* caller, each envelope with the key and the buffer
    app,        \* the App that owns the manager, or NoApp
    config      \* the behavior section of the Config the App was given

vars ==
    <<manager, file, now, uuids, calls, lastOp, trail, encryption, sealed,
      app, config>>

\* the store of a session, and the Encryption Manager used on its own
storeVars == <<manager, file, now, uuids, trail>>
cipherVars == <<encryption, sealed>>
appVars == <<app, config>>

\* no App: the store, or the Encryption Manager, is driven by its caller
NoApp == [constructed |-> FALSE]
\* Config::default, the fields of behavior the App reads
DefaultConfig ==
    [encryption_enabled |-> FALSE, auto_save |-> TRUE, confirm_delete |-> TRUE,
     use_native_dialog |-> TRUE]

\* what a session can find at notes_file when it starts
SeedNotes == [id \in {0} |-> NoteNew(0, "T", "C", 0)]
\* a file whose note carries an updated_at earlier than its created_at:
\* serde reads the two timestamps as they stand
BackdatedNotes ==
    [id \in {0} |-> [NoteNew(0, "T", "C", 0) EXCEPT !.updated_at = -1]]
\* a file in which an entry sits under a key other than the id inside the
\* note: serde reads the map and the notes independently of each other
MiskeyedFile ==
    [kind |-> "notes",
     members |-> {[k |-> 0, v |-> NoteNew(MaxNotes + 1, "T", "C", 0)]}]
SeedSalt == Bytes(1, SALT_LEN)
SeedNonce == Bytes(1, NONCE_LEN)
SeedKey == derive_key(GoodPassword, SeedSalt)
SeedEnvelope ==
    encrypted_to_string(
        encrypt(SeedKey, to_string_pretty(SeedNotes), SeedSalt, SeedNonce).enc)
InitialFiles ==
    {Absent,
     [kind |-> "empty"],
     [kind |-> "garbage"],
     [kind |-> "binary"],
     to_string_pretty(SeedNotes),
     to_string_pretty(BackdatedNotes),
     MiskeyedFile,
     SeedEnvelope,
     [SeedEnvelope EXCEPT !.magic = "PLAIN_NOTES"],
     [SeedEnvelope EXCEPT !.salt = NotBase64],
     [SeedEnvelope EXCEPT !.salt = B64Encode(Bytes(1, 8))],
     [SeedEnvelope EXCEPT !.data = B64Encode(Tampered)],
     [SeedEnvelope EXCEPT
        !.data = B64Encode(Seal(SeedKey, SeedNonce, [kind |-> "garbage"]))]}

NoteIds == 0..MaxNotes
Destinations == {"notes_file", "elsewhere"}

Init ==
    /\ manager = NoManager
    /\ file \in InitialFiles
    /\ now = 0
    /\ uuids = 0
    /\ calls = 0
    /\ lastOp = [op |-> "start", res |-> Ok]
    /\ trail = "locked"
    /\ encryption = NoKey
    /\ sealed = {}
    /\ app = NoApp
    /\ config = DefaultConfig

\* ---------------------------------------------------------------- actions
\* every call counts against the budget of the behaviour
Counted ==
    /\ calls < MaxCalls
    /\ calls' = calls + 1

\* a call that is not an edit of the notes ends the trail of edits
Used == trail' = IF trail = "locked" THEN "locked" ELSE "used"

New(encryption_enabled, nonce) ==
    /\ Counted
    /\ manager = NoManager
    /\ LET r == new(encryption_enabled, file, nonce)
       IN  /\ manager' = r.m
           /\ file' = r.file
           /\ lastOp' = [op |-> "new", res |-> r.res]
    /\ trail' = "locked"
    /\ UNCHANGED <<now, uuids>>
    /\ UNCHANGED cipherVars
    /\ UNCHANGED appVars

UnlockEncryption(password, fresh_salt, nonce) ==
    /\ Counted
    /\ manager # NoManager
    /\ LET r == unlock_encryption(manager, file, password, fresh_salt, nonce)
       IN  /\ manager' = r.m
           /\ file' = r.file
           /\ lastOp' = [op |-> "unlock_encryption", res |-> r.res]
           /\ IF r.res = Ok
              THEN trail' = IF exists(file) THEN "opened" ELSE "created"
              ELSE Used
    /\ UNCHANGED <<now, uuids>>
    /\ UNCHANGED cipherVars
    /\ UNCHANGED appVars

AddNote(title, content, t) ==
    /\ Counted
    /\ manager # NoManager
    /\ uuids < MaxNotes
    /\ uuids' = uuids + 1
    /\ now' = t
    /\ manager' = add_note(manager, uuids + 1, title, content, t)
    /\ lastOp' = [op |-> "add_note", res |-> Ok, id |-> uuids + 1,
                  title |-> title, content |-> content,
                  ret |-> manager'.notes[uuids + 1]]
    /\ UNCHANGED <<file, trail>>
    /\ UNCHANGED cipherVars
    /\ UNCHANGED appVars

\* get_note_mut(id) and what the caller does with the handle
UpdateTitle(id, title, t) ==
    /\ Counted
    /\ manager # NoManager
    /\ id \in DOMAIN manager.notes
    /\ now' = t
    /\ manager' = [get_note_mut(manager, id) EXCEPT
                      !.notes[id] = update_title(@, title, t)]
    /\ lastOp' = [op |-> "update_title", res |-> Ok, id |-> id]
    /\ UNCHANGED <<file, uuids, trail>>
    /\ UNCHANGED cipherVars
    /\ UNCHANGED appVars

UpdateContent(id, content, t) ==
    /\ Counted
    /\ manager # NoManager
    /\ id \in DOMAIN manager.notes
    /\ now' = t
    /\ manager' = [get_note_mut(manager, id) EXCEPT
                      !.notes[id] = update_content(@, content, t)]
    /\ lastOp' = [op |-> "update_content", res |-> Ok, id |-> id]
    /\ UNCHANGED <<file, uuids, trail>>
    /\ UNCHANGED cipherVars
    /\ UNCHANGED appVars

TogglePin(id, t) ==
    /\ Counted
    /\ manager # NoManager
    /\ id \in DOMAIN manager.notes
    /\ now' = t
    /\ manager' = [get_note_mut(manager, id) EXCEPT
                      !.notes[id] = toggle_pin(@, t)]
    /\ lastOp' = [op |-> "toggle_pin", res |-> Ok, id |-> id]
    /\ UNCHANGED <<file, uuids, trail>>
    /\ UNCHANGED cipherVars
    /\ UNCHANGED appVars

\* get_note_mut(id) with the handle unused, or None for an id not present
GetNoteMut(id) ==
    /\ Counted
    /\ manager # NoManager
    /\ manager' = get_note_mut(manager, id)
    /\ lastOp' = [op |-> "get_note_mut", res |-> Ok, id |-> id,
                  found |-> id \in DOMAIN manager.notes]
    /\ UNCHANGED <<file, now, uuids, trail>>
    /\ UNCHANGED cipherVars
    /\ UNCHANGED appVars

DeleteNote(id) ==
    /\ Counted
    /\ manager # NoManager
    /\ manager' = delete_note(manager, id)
    /\ lastOp' = [op |-> "delete_note", res |-> Ok, id |-> id,
                  found |-> id \in DOMAIN manager.notes,
                  ret |-> IF id \in DOMAIN manager.notes
                          THEN Some(manager.notes[id]) ELSE None]
    /\ UNCHANGED <<file, now, uuids, trail>>
    /\ UNCHANGED cipherVars
    /\ UNCHANGED appVars

GetAllNotes ==
    /\ Counted
    /\ manager # NoManager
    /\ \E order \in SortedOrders(manager.notes) :
          /\ manager' = update_sorted_cache(manager, order)
          /\ lastOp' = [op |-> "get_all_notes", res |-> Ok,
                        ret |-> get_all_notes(manager')]
    /\ Used
    /\ UNCHANGED <<file, now, uuids>>
    /\ UNCHANGED cipherVars
    /\ UNCHANGED appVars

SearchNotes(query) ==
    /\ Counted
    /\ manager # NoManager
    /\ \E order \in SortedOrders(manager.notes) :
          /\ manager' = update_sorted_cache(manager, order)
          /\ lastOp' = [op |-> "search_notes", res |-> Ok, query |-> query,
                        ret |-> search_notes(manager', query)]
    /\ Used
    /\ UNCHANGED <<file, now, uuids>>
    /\ UNCHANGED cipherVars
    /\ UNCHANGED appVars

SaveNotes(nonce) ==
    /\ Counted
    /\ manager # NoManager
    /\ LET r == save_notes(manager, file, nonce)
       IN  /\ file' = r.file
           /\ lastOp' = [op |-> "save_notes", res |-> r.res]
    /\ Used
    /\ UNCHANGED <<manager, now, uuids>>
    /\ UNCHANGED cipherVars
    /\ UNCHANGED appVars

ExportPlaintext(dest) ==
    /\ Counted
    /\ manager # NoManager
    /\ LET r == export_plaintext(manager)
       IN  /\ file' = IF r.res = Ok /\ dest = "notes_file" THEN r.wrote
                      ELSE file
           /\ lastOp' = [op |-> "export_plaintext", res |-> r.res,
                         dest |-> dest,
                         wrote |-> IF r.res = Ok THEN r.wrote ELSE Absent]
    /\ Used
    /\ UNCHANGED <<manager, now, uuids>>
    /\ UNCHANGED cipherVars
    /\ UNCHANGED appVars

\* the session ends: the manager is dropped, and with it the key
Drop ==
    /\ Counted
    /\ manager # NoManager
    /\ manager' = NoManager
    /\ lastOp' = [op |-> "drop", res |-> Ok]
    /\ trail' = "locked"
    /\ UNCHANGED <<file, now, uuids>>
    /\ UNCHANGED cipherVars
    /\ UNCHANGED appVars

Next ==
    \/ \E e \in BOOLEAN, n \in Nonces : New(e, n)
    \/ \E p \in Passwords, s \in Salts, n \in Nonces : UnlockEncryption(p, s, n)
    \/ \E ti \in Titles, c \in Contents, t \in now..MaxTime : AddNote(ti, c, t)
    \/ \E id \in NoteIds, ti \in Titles, t \in now..MaxTime :
          UpdateTitle(id, ti, t)
    \/ \E id \in NoteIds, c \in Contents, t \in now..MaxTime :
          UpdateContent(id, c, t)
    \/ \E id \in NoteIds, t \in now..MaxTime : TogglePin(id, t)
    \/ \E id \in NoteIds : GetNoteMut(id)
    \/ \E id \in NoteIds : DeleteNote(id)
    \/ GetAllNotes
    \/ \E q \in Queries : SearchNotes(q)
    \/ \E n \in Nonces : SaveNotes(n)
    \/ \E d \in Destinations : ExportPlaintext(d)
    \/ Drop

Spec == Init /\ [][Next]_vars

\* ------------------------------------------- the Encryption Manager alone
\* what a caller can hand to an EncryptionManager of its own
SevenPassword == Rep("a", MIN_PASSWORD_LENGTH - 1)
EightPassword == Rep("a", MIN_PASSWORD_LENGTH)
FullPassword == Rep("a", MAX_PASSWORD_LENGTH)
PasswordInputs ==
    Passwords \cup {SevenPassword, EightPassword, FullPassword,
                    AccentedPassword, WidePassword}
SaltInputs == {SeedSalt, Bytes(1, 8)}
Buffers ==
    {to_string_pretty(SeedNotes), Blob(MAX_CONTENT_SIZE),
     Blob(MAX_CONTENT_SIZE + 1)}

\* the envelope encrypt returned for the seed notes, and envelopes that
\* differ from a given one in a single field; the inputs of decrypt differ
\* from the seed envelope in one field, or in the magic and one other field
SeedEncrypted ==
    encrypt(SeedKey, to_string_pretty(SeedNotes), SeedSalt, SeedNonce).enc
Damaged(enc) ==
    {[enc EXCEPT !.magic = "PLAIN_NOTES"],
     [enc EXCEPT !.nonce = NotBase64],
     [enc EXCEPT !.data = NotBase64],
     [enc EXCEPT !.nonce = B64Encode(Bytes(1, 8))],
     [enc EXCEPT !.nonce = B64Encode(Bytes(0, NONCE_LEN))],
     [enc EXCEPT !.data = B64Encode(Tampered)],
     [enc EXCEPT !.data =
        B64Encode(Seal(SeedKey, SeedNonce, Blob(MAX_CONTENT_SIZE + 1)))]}
EnvelopeInputs ==
    {SeedEncrypted} \cup Damaged(SeedEncrypted)
        \cup Damaged([SeedEncrypted EXCEPT !.magic = "PLAIN_NOTES"])
        \cup {e.enc : e \in sealed}
ContentInputs ==
    (InitialFiles \ {Absent, [kind |-> "binary"]})
        \cup {encrypted_to_string(e.enc) : e \in sealed}

Unlock(password, salt) ==
    /\ Counted
    /\ LET r == unlock(encryption, password, salt)
       IN  /\ encryption' = r.key
           /\ lastOp' = [op |-> "unlock", res |-> r.res,
                         password |-> password, salt |-> salt]
    /\ UNCHANGED sealed
    /\ UNCHANGED storeVars
    /\ UNCHANGED appVars

Lock ==
    /\ Counted
    /\ encryption' = lock(encryption)
    /\ lastOp' = [op |-> "lock", res |-> Ok]
    /\ UNCHANGED sealed
    /\ UNCHANGED storeVars
    /\ UNCHANGED appVars

IsUnlocked ==
    /\ Counted
    /\ lastOp' = [op |-> "is_unlocked", res |-> Ok,
                  ret |-> is_unlocked(encryption)]
    /\ UNCHANGED cipherVars
    /\ UNCHANGED storeVars
    /\ UNCHANGED appVars

Encrypt(data, salt, nonce) ==
    /\ Counted
    /\ LET r == encrypt(encryption, data, salt, nonce)
       IN  /\ lastOp' = [op |-> "encrypt", res |-> r.res, data |-> data,
                         salt |-> salt,
                         out |-> IF r.res = Ok THEN Some(r.enc) ELSE None]
           /\ sealed' = IF r.res = Ok
                        THEN sealed \cup {[key |-> encryption, data |-> data,
                                           enc |-> r.enc]}
                        ELSE sealed
    /\ UNCHANGED encryption
    /\ UNCHANGED storeVars
    /\ UNCHANGED appVars

Decrypt(encrypted) ==
    /\ Counted
    /\ LET r == decrypt(encryption, encrypted)
       IN  lastOp' = [op |-> "decrypt", res |-> r.res,
                      encrypted |-> encrypted,
                      out |-> IF r.res = Ok THEN Some(r.data) ELSE None,
                      ran |-> decrypt_steps(encryption, encrypted)]
    /\ UNCHANGED cipherVars
    /\ UNCHANGED storeVars
    /\ UNCHANGED appVars

IsFileEncrypted(content) ==
    /\ Counted
    /\ lastOp' = [op |-> "is_file_encrypted", res |-> Ok,
                  content |-> content, ret |-> is_file_encrypted(content)]
    /\ UNCHANGED cipherVars
    /\ UNCHANGED storeVars
    /\ UNCHANGED appVars

\* a store is constructed on f and unlock_encryption is called on it once
UnlockStore(encryption_enabled, f, password, fresh_salt, nonce) ==
    /\ Counted
    /\ new(encryption_enabled, f, nonce).res = Ok
    /\ LET c == new(encryption_enabled, f, nonce)
           r == unlock_encryption(c.m, c.file, password, fresh_salt, nonce)
       IN  lastOp' = [op |-> "unlock_encryption", res |-> r.res,
                      password |-> password, key |-> r.m.key]
    /\ UNCHANGED cipherVars
    /\ UNCHANGED storeVars
    /\ UNCHANGED appVars

\* the manager goes out of scope: drop runs lock, and the next one is new
DropEncryption ==
    /\ Counted
    /\ encryption' = lock(encryption)
    /\ lastOp' = [op |-> "drop", res |-> Ok]
    /\ UNCHANGED sealed
    /\ UNCHANGED storeVars
    /\ UNCHANGED appVars

CipherInit ==
    /\ manager = NoManager
    /\ file = Absent
    /\ now = 0
    /\ uuids = 0
    /\ calls = 0
    /\ lastOp = [op |-> "start", res |-> Ok]
    /\ trail = "locked"
    /\ encryption = NoKey
    /\ sealed = {}
    /\ app = NoApp
    /\ config = DefaultConfig

CipherNext ==
    \/ \E p \in PasswordInputs, s \in SaltInputs : Unlock(p, s)
    \/ Lock
    \/ IsUnlocked
    \/ \E d \in Buffers, s \in SaltInputs, n \in Nonces : Encrypt(d, s, n)
    \/ \E e \in EnvelopeInputs : Decrypt(e)
    \/ \E c \in ContentInputs : IsFileEncrypted(c)
    \/ \E e \in BOOLEAN, f \in {Absent, SeedEnvelope}, p \in PasswordInputs,
          s \in Salts : UnlockStore(e, f, p, s, SeedNonce)
    \/ DropEncryption

CipherSpec == CipherInit /\ [][CipherNext]_vars

\* ---------------------------------------------------------------- the App
\* keys the App reads at a password prompt before Enter, search characters
\* typed, and key events handled after the password prompt
MaxTyped == 9
MaxQueryLen == 1
MaxKeys == 4

\* what the two text areas of the editor can hold after a key
EditorTitles == {"", "T", "U"}
EditorContents == {"", "C", HugeContent}
\* what the export path input can hold after a key
ExportPaths == {"", "notes_file", "elsewhere"}
\* what the native file dialog can come back with
DialogOutcomes == {"notes_file", "elsewhere", "cancelled", "unavailable"}

\* Config::default and the configurations one or two fields away from it
Configs ==
    {DefaultConfig,
     [DefaultConfig EXCEPT !.encryption_enabled = TRUE],
     [DefaultConfig EXCEPT !.auto_save = FALSE],
     [DefaultConfig EXCEPT !.confirm_delete = FALSE],
     [DefaultConfig EXCEPT !.use_native_dialog = FALSE],
     [DefaultConfig EXCEPT !.encryption_enabled = TRUE, !.auto_save = FALSE]}
\* the salt generate_salt draws for a new vault and the nonce encrypt draws
\* for a save, neither of them the one of the seed
AppSalts == {Bytes(NumSalts, SALT_LEN)}
AppNonces == {Bytes(NumNonces, NONCE_LEN)}

\* the vault of the seed notes under the password of eight letters a
AppEnvelope ==
    encrypted_to_string(
        encrypt(derive_key(EightPassword, SeedSalt),
                to_string_pretty(SeedNotes), SeedSalt, SeedNonce).enc)
\* two notes, the second one the older
PairNotes ==
    [id \in {0, MaxNotes + 1} |->
        IF id = 0 THEN NoteNew(0, "T", "C", 0)
        ELSE NoteNew(MaxNotes + 1, "U", "D", -1)]
AppFiles ==
    {Absent, to_string_pretty(SeedNotes), to_string_pretty(PairNotes),
     AppEnvelope}

\* str::trim().is_empty()
IsBlank(s) == \A i \in 1..Len(s) : SubSeq(s, i, i) \in {" ", "\n", "\t"}

\* str::lines().next().unwrap_or("Untitled")
first_line(s) ==
    IF Len(s) = 0 THEN "Untitled"
    ELSE IF \E i \in 1..Len(s) : SubSeq(s, i, i) = "\n"
    THEN LET i == CHOOSE i \in 1..Len(s) :
                     /\ SubSeq(s, i, i) = "\n"
                     /\ \A j \in 1..(i - 1) : SubSeq(s, j, j) # "\n"
         IN  SubSeq(s, 1, i - 1)
    ELSE s

\* TextArea::from(content.lines()) read back with lines().join("\n"): a
\* line terminator at the very end of the content is not kept
through_lines(s) ==
    IF Len(s) > 0 /\ SubSeq(s, Len(s), Len(s)) = "\n"
    THEN SubSeq(s, 1, Len(s) - 1)
    ELSE s

\* String::insert and String::remove at a byte position
str_insert(s, pos, c) == SubSeq(s, 1, pos) \o c \o SubSeq(s, pos + 1, Len(s))
str_remove(s, pos) == SubSeq(s, 1, pos) \o SubSeq(s, pos + 2, Len(s))

\* the App struct App::new fills in, of the fields the handlers branch on
\* (scroll_offset, highlighting_enabled and the two cursor positions of
\* the text areas only feed the drawing)
AppStruct(mode, store_path) ==
    [mode |-> mode,
     edit_mode |-> "Title",
     store_path |-> store_path,
     selected_note_index |-> 0,
     title_textarea |-> "",
     content_textarea |-> "",
     current_note_id |-> None,
     viewing_note |-> None,
     search_query |-> "",
     search_cursor_position |-> 0,
     search_results |-> << >>,
     delete_note_title |-> "",
     should_quit |-> FALSE,
     help_visible |-> TRUE,
     original_title |-> "",
     original_content |-> "",
     password_input |-> "",
     password_error |-> None,
     password_limit_reached |-> FALSE,
     export_file_input |-> "",
     failed |-> FALSE]

\* App::new: the App and its manager, or no App when NoteManager::new fails
\* for another reason than an encrypted file
AppNew(cfg, f) ==
    LET r == new(cfg.encryption_enabled, f, SeedNonce)
    IN  IF r.res = Ok
        THEN [ok |-> TRUE, m |-> r.m, file |-> r.file,
              app |-> AppStruct(
                 IF cfg.encryption_enabled
                 THEN IF exists(f) /\ readable(f) /\ is_file_encrypted(f)
                      THEN "PasswordPrompt" ELSE "PasswordSetup"
                 ELSE "NoteList",
                 "notes_file")]
        ELSE IF contains(r.res.msg, "ENCRYPTED_FILE_DETECTED")
        THEN [ok |-> TRUE,
              m |-> new(FALSE, [kind |-> "empty"], SeedNonce).m,
              file |-> r.file,
              app |-> AppStruct("EncryptedFileWarning", "/dev/null")]
        ELSE [ok |-> FALSE]

AppInit ==
    /\ config \in Configs
    /\ \E f \in AppFiles :
          \E r \in {AppNew(config, f)} :
             /\ r.ok
             /\ app = r.app
             /\ manager = r.m
             /\ file = r.file
    /\ now = 0
    /\ uuids = 0
    /\ calls = 0
    /\ lastOp = [op |-> "start", res |-> Ok]
    /\ trail = "locked"
    /\ encryption = NoKey
    /\ sealed = {}

\* what a handler leaves: the App, its manager, the file, the result
\* handle_input returns, and whether the clock or a uuid was drawn
World(a, m, f, res, stamped, drew) ==
    [app |-> a, m |-> m, file |-> f, res |-> res, stamped |-> stamped,
     drew |-> drew]

\* NoteManager::save_notes on the path the manager of the App was given
StoreSave(a, m, f, nonce) ==
    IF a.store_path = "notes_file" THEN save_notes(m, f, nonce)
    ELSE [file |-> f, res |-> save_notes(m, f, nonce).res]

\* the managers get_all_notes can leave, and the note it lists at index i
AfterGetAll(m) == {update_sorted_cache(m, o) : o \in SortedOrders(m.notes)}
NoteAt(m, i) ==
    IF i < Len(get_all_notes(m))
    THEN Some(m.notes[get_all_notes(m)[i + 1]]) ELSE None

return_to_list(a) ==
    [a EXCEPT !.mode = "NoteList", !.edit_mode = "Title",
              !.title_textarea = "", !.content_textarea = "",
              !.current_note_id = None, !.viewing_note = None]

\* App::save_current_note: update_title and update_content each read the
\* clock; t is the later reading, the one that stays in updated_at
save_current_note(a, m, f, t, nonce) ==
    LET found == /\ a.current_note_id # None
                 /\ a.current_note_id.some \in DOMAIN m.notes
        id == a.current_note_id.some
        m1 == IF found
              THEN [get_note_mut(m, id) EXCEPT
                       !.notes[id] =
                          update_content(
                             update_title(@, a.title_textarea, t),
                             a.content_textarea, t)]
              ELSE m
        s == StoreSave(a, m1, f, nonce)
    IN  World(a, m1, s.file, s.res, found, FALSE)

\* App::save_new_note, with the uuid and the time Note::new draws
save_new_note(a, m, f, id, t, nonce) ==
    LET title == IF IsBlank(a.title_textarea)
                 THEN first_line(a.content_textarea)
                 ELSE a.title_textarea
        m1 == add_note(m, id, title, a.content_textarea, t)
        s == StoreSave(a, m1, f, nonce)
    IN  World(a, m1, s.file, s.res, TRUE, TRUE)

has_unsaved_changes(a) ==
    \/ a.title_textarea # a.original_title
    \/ a.content_textarea # a.original_content

\* App::update_search_filter
update_search_filter(a, m, f) ==
    {LET results == [i \in 1..Len(search_notes(m1, a.search_query)) |->
                        m1.notes[search_notes(m1, a.search_query)[i]].id]
     IN  World([a EXCEPT
                   !.search_results = results,
                   !.selected_note_index =
                      IF @ >= Len(results) /\ Len(results) # 0 THEN 0 ELSE @],
               m1, f, Ok, FALSE, FALSE) : m1 \in AfterGetAll(m)}

\* a handler that returns Ok without reading the clock or drawing a uuid
Same(a, m, f) == World(a, m, f, Ok, FALSE, FALSE)

start_creating_note(a) ==
    [a EXCEPT !.mode = "CreatingNote", !.edit_mode = "Title",
              !.title_textarea = "", !.content_textarea = "",
              !.current_note_id = None, !.viewing_note = None]

start_searching(a, m, f) ==
    update_search_filter(
        [a EXCEPT !.mode = "Searching", !.search_query = "",
                  !.search_cursor_position = 0, !.selected_note_index = 0],
        m, f)

exit_search(a) ==
    [a EXCEPT !.mode = "NoteList", !.search_query = "",
              !.search_cursor_position = 0, !.search_results = << >>,
              !.selected_note_index = 0]

move_selection_up_filtered(a) ==
    [a EXCEPT !.selected_note_index = IF @ > 0 THEN @ - 1 ELSE @]

move_selection_down_filtered(a) ==
    [a EXCEPT !.selected_note_index =
                 IF Len(a.search_results) > 0 /\ @ < Len(a.search_results) - 1
                 THEN @ + 1 ELSE @]

start_viewing_filtered_note(a, m, f) ==
    IF a.selected_note_index < Len(a.search_results)
    THEN {LET note_id == a.search_results[a.selected_note_index + 1]
              found == {k \in DOMAIN m1.notes :
                           /\ \E i \in DOMAIN get_all_notes(m1) :
                                 get_all_notes(m1)[i] = k
                           /\ m1.notes[k].id = note_id}
          IN  IF found # {}
              THEN LET note == m1.notes[CHOOSE k \in found : TRUE]
                   IN  Same([a EXCEPT !.mode = "ViewingNote",
                                      !.viewing_note = Some(note),
                                      !.current_note_id = Some(note.id)],
                            m1, f)
              ELSE Same(a, m1, f) : m1 \in AfterGetAll(m)}
    ELSE {Same(a, m, f)}

start_viewing_selected_note(a, m, f) ==
    {LET note == NoteAt(m1, a.selected_note_index)
     IN  IF note # None
         THEN Same([a EXCEPT !.mode = "ViewingNote",
                             !.viewing_note = note,
                             !.current_note_id = Some(note.some.id)],
                   m1, f)
         ELSE Same(a, m1, f) : m1 \in AfterGetAll(m)}

start_editing_from_viewing(a) ==
    IF a.viewing_note # None
    THEN LET note == a.viewing_note.some
         IN  [a EXCEPT !.mode = "EditingNote", !.edit_mode = "Title",
                       !.title_textarea = note.title,
                       !.content_textarea = through_lines(note.content),
                       !.original_title = note.title,
                       !.original_content = note.content]
    ELSE a

start_editing_selected_note(a, m, f) ==
    {LET note == NoteAt(m1, a.selected_note_index)
     IN  IF note # None
         THEN Same([a EXCEPT !.mode = "EditingNote", !.edit_mode = "Title",
                             !.title_textarea = note.some.title,
                             !.content_textarea =
                                through_lines(note.some.content),
                             !.current_note_id = Some(note.some.id),
                             !.viewing_note = None,
                             !.original_title = note.some.title,
                             !.original_content = note.some.content],
                   m1, f)
         ELSE Same(a, m1, f) : m1 \in AfterGetAll(m)}

confirm_delete_selected_note(a, m, f) ==
    {LET note == NoteAt(m1, a.selected_note_index)
     IN  IF note # None
         THEN Same([a EXCEPT !.delete_note_title = note.some.title,
                             !.mode = "ConfirmingDelete"],
                   m1, f)
         ELSE Same(a, m1, f) : m1 \in AfterGetAll(m)}

cancel_delete_confirmation(a) ==
    [a EXCEPT !.mode = "NoteList", !.delete_note_title = ""]

\* confirm_and_delete_note that leaves the selection where it was
confirm_and_delete_note_keeps_index(a, m, f, nonce) ==
    UNION {LET note == NoteAt(m1, a.selected_note_index)
           IN  IF note = None
               THEN {Same(cancel_delete_confirmation(a), m1, f)}
               ELSE LET m2 == delete_note(m1, note.some.id)
                        s == StoreSave(a, m2, f, nonce)
                    IN  IF s.res # Ok
                        THEN {World(a, m2, s.file, s.res, FALSE, FALSE)}
                        ELSE {Same(cancel_delete_confirmation(a), m3, s.file)
                                 : m3 \in AfterGetAll(m2)}
             : m1 \in AfterGetAll(m)}

confirm_and_delete_note(a, m, f, nonce) ==
    UNION {LET note == NoteAt(m1, a.selected_note_index)
           IN  IF note = None
               THEN {Same(cancel_delete_confirmation(a), m1, f)}
               ELSE LET m2 == delete_note(m1, note.some.id)
                        s == StoreSave(a, m2, f, nonce)
                    IN  IF s.res # Ok
                        THEN {World(a, m2, s.file, s.res, FALSE, FALSE)}
                        ELSE {LET new_count == Len(get_all_notes(m3))
                              IN  Same(cancel_delete_confirmation(
                                          [a EXCEPT !.selected_note_index =
                                              IF @ >= new_count /\ new_count > 0
                                              THEN new_count - 1 ELSE @]),
                                       m3, s.file)
                                 : m3 \in AfterGetAll(m2)}
             : m1 \in AfterGetAll(m)}

move_selection_up(a) ==
    [a EXCEPT !.selected_note_index = IF @ > 0 THEN @ - 1 ELSE @]

move_selection_down(a, m, f) ==
    {LET n == Len(get_all_notes(m1))
     IN  Same([a EXCEPT !.selected_note_index =
                           IF n > 0 /\ @ < n - 1 THEN @ + 1 ELSE @],
              m1, f) : m1 \in AfterGetAll(m)}

toggle_pin_selected_note(a, m, f, t, nonce) ==
    {LET note == NoteAt(m1, a.selected_note_index)
     IN  IF note = None THEN Same(a, m1, f)
         ELSE LET id == note.some.id
                  hit == id \in DOMAIN m1.notes
                  m2 == IF hit
                        THEN [get_note_mut(m1, id) EXCEPT
                                 !.notes[id] = toggle_pin(@, t)]
                        ELSE m1
                  s == StoreSave(a, m2, f, nonce)
              IN  World(a, m2, s.file, s.res, hit, FALSE)
       : m1 \in AfterGetAll(m)}

\* the keys a password screen takes as a character: the keys bound to
\* manual_save and to export_plaintext are characters with a modifier
TypingKeys == {"Char", "manual_save", "export_plaintext"}

\* a password screen that opens the list whatever unlock_encryption returns
handle_password_input_opens_anyway(a, m, f, key, fresh_salt, nonce) ==
    CASE key = "Enter" ->
           IF a.password_input # ""
           THEN LET r == unlock_encryption(m, f, a.password_input,
                                           fresh_salt, nonce)
                IN  IF r.res = Ok
                    THEN Same([a EXCEPT !.mode = "NoteList",
                                        !.password_input = "",
                                        !.password_error = None],
                              r.m, r.file)
                    ELSE Same([a EXCEPT !.mode = "NoteList",
                                        !.password_error = Some(r.res.msg),
                                        !.password_input = ""],
                              r.m, r.file)
           ELSE Same(a, m, f)
      [] key = "Esc" -> Same([a EXCEPT !.should_quit = TRUE], m, f)
      [] key = "Backspace" ->
           Same([a EXCEPT !.password_input =
                             IF Len(@) > 0 THEN SubSeq(@, 1, Len(@) - 1)
                             ELSE @,
                          !.password_error = None,
                          !.password_limit_reached = FALSE],
                m, f)
      [] key \in TypingKeys ->
           IF Len(a.password_input) < 64
           THEN Same([a EXCEPT !.password_input = @ \o "a",
                               !.password_error = None,
                               !.password_limit_reached =
                                  Len(a.password_input) + 1 >= 64],
                     m, f)
           ELSE Same([a EXCEPT !.password_limit_reached = TRUE], m, f)
      [] OTHER -> Same(a, m, f)

\* the two password screens share their code: the key bound to manual_save
\* or export_plaintext reaches them as the character it carries
handle_password_input(a, m, f, key, fresh_salt, nonce) ==
    CASE key = "Enter" ->
           IF a.password_input # ""
           THEN LET r == unlock_encryption(m, f, a.password_input,
                                           fresh_salt, nonce)
                IN  IF r.res = Ok
                    THEN Same([a EXCEPT !.mode = "NoteList",
                                        !.password_input = "",
                                        !.password_error = None],
                              r.m, r.file)
                    ELSE Same([a EXCEPT !.password_error = Some(r.res.msg),
                                        !.password_input = ""],
                              r.m, r.file)
           ELSE Same(a, m, f)
      [] key = "Esc" -> Same([a EXCEPT !.should_quit = TRUE], m, f)
      [] key = "Backspace" ->
           Same([a EXCEPT !.password_input =
                             IF Len(@) > 0 THEN SubSeq(@, 1, Len(@) - 1)
                             ELSE @,
                          !.password_error = None,
                          !.password_limit_reached = FALSE],
                m, f)
      [] key \in TypingKeys ->
           IF Len(a.password_input) < 64
           THEN Same([a EXCEPT !.password_input = @ \o "a",
                               !.password_error = None,
                               !.password_limit_reached =
                                  Len(a.password_input) + 1 >= 64],
                     m, f)
           ELSE Same([a EXCEPT !.password_limit_reached = TRUE], m, f)
      [] OTHER -> Same(a, m, f)

handle_password_setup_input(a, m, f, key, fresh_salt, nonce) ==
    handle_password_input(a, m, f, key, fresh_salt, nonce)

handle_list_input(a, m, f, cfg, key, t, nonce) ==
    CASE key = "quit" -> {Same([a EXCEPT !.should_quit = TRUE], m, f)}
      [] key = "create_note" -> {Same(start_creating_note(a), m, f)}
      [] key = "view_note" -> start_viewing_selected_note(a, m, f)
      [] key = "search_notes" -> start_searching(a, m, f)
      [] key = "edit_note" -> start_editing_selected_note(a, m, f)
      [] key = "delete_note" ->
           IF cfg.confirm_delete THEN confirm_delete_selected_note(a, m, f)
           ELSE confirm_and_delete_note(a, m, f, nonce)
      [] key = "move_up" -> {Same(move_selection_up(a), m, f)}
      [] key = "move_down" -> move_selection_down(a, m, f)
      [] key = "toggle_pin" -> toggle_pin_selected_note(a, m, f, t, nonce)
      [] OTHER -> {Same(a, m, f)}

handle_search_input(a, m, f, key, c) ==
    CASE key = "exit_search" -> {Same(exit_search(a), m, f)}
      [] key \in {"search_select", "search_view"} ->
           IF Len(a.search_results) # 0
           THEN start_viewing_filtered_note(a, m, f)
           ELSE {Same(a, m, f)}
      [] key = "Backspace" ->
           IF a.search_cursor_position > 0
           THEN update_search_filter(
                   [a EXCEPT !.search_query =
                                str_remove(@, a.search_cursor_position - 1),
                             !.search_cursor_position = @ - 1],
                   m, f)
           ELSE {Same(a, m, f)}
      [] key = "Delete" ->
           IF a.search_cursor_position < Len(a.search_query)
           THEN update_search_filter(
                   [a EXCEPT !.search_query =
                                str_remove(@, a.search_cursor_position)],
                   m, f)
           ELSE {Same(a, m, f)}
      [] key = "Left" ->
           {Same([a EXCEPT !.search_cursor_position =
                              IF @ > 0 THEN @ - 1 ELSE @], m, f)}
      [] key = "Right" ->
           {Same([a EXCEPT !.search_cursor_position =
                              IF @ < Len(a.search_query) THEN @ + 1 ELSE @],
                 m, f)}
      [] key = "Up" -> {Same(move_selection_up_filtered(a), m, f)}
      [] key = "Down" -> {Same(move_selection_down_filtered(a), m, f)}
      [] key = "Char" ->
           update_search_filter(
              [a EXCEPT !.search_query =
                           str_insert(@, a.search_cursor_position, c),
                        !.search_cursor_position = @ + 1],
              m, f)
      [] OTHER -> {Same(a, m, f)}

handle_viewing_input(a, m, f, key) ==
    CASE key = "return_to_list" -> Same(return_to_list(a), m, f)
      [] key = "edit_from_view" -> Same(start_editing_from_viewing(a), m, f)
      [] key = "quit" -> Same([a EXCEPT !.should_quit = TRUE], m, f)
      [] OTHER -> Same(a, m, f)

handle_delete_confirmation_input(a, m, f, key, nonce) ==
    CASE key = "confirm_delete" -> confirm_and_delete_note(a, m, f, nonce)
      [] key = "cancel_delete" -> {Same(cancel_delete_confirmation(a), m, f)}
      [] OTHER -> {Same(a, m, f)}

\* the World of a call followed by `?`: the App becomes a only if the call
\* returned Ok
Then(w, a) == IF w.res = Ok THEN [w EXCEPT !.app = a] ELSE w

handle_unsaved_exit_confirmation_input(a, m, f, key, t, nonce) ==
    CASE key = "save_and_exit_unsaved" ->
           Then(save_current_note(a, m, f, t, nonce), return_to_list(a))
      [] key = "discard_and_exit" -> Same(return_to_list(a), m, f)
      [] key = "cancel_exit" -> Same([a EXCEPT !.mode = "EditingNote"], m, f)
      [] OTHER -> Same(a, m, f)

\* a warning screen that Enter dismisses
handle_encrypted_file_warning_input_dismissable(a, m, f, key) ==
    IF key \in {"Esc", "q"} THEN Same([a EXCEPT !.should_quit = TRUE], m, f)
    ELSE IF key = "Enter" THEN Same([a EXCEPT !.mode = "NoteList"], m, f)
    ELSE Same(a, m, f)

handle_encrypted_file_warning_input(a, m, f, key) ==
    IF key \in {"Esc", "q"} THEN Same([a EXCEPT !.should_quit = TRUE], m, f)
    ELSE Same(a, m, f)

\* what export_plaintext leaves at notes_file when it is handed path
Exported(m, f, path) ==
    LET r == export_plaintext(m)
    IN  IF r.res = Ok /\ path = "notes_file" THEN r.wrote ELSE f

handle_export_confirmation_input(a, m, f, cfg, key, dialog) ==
    CASE key = "y" ->
           IF cfg.use_native_dialog /\ dialog = "cancelled"
           THEN Same([a EXCEPT !.mode = "NoteList"], m, f)
           ELSE IF cfg.use_native_dialog /\ dialog # "unavailable"
           THEN Same([a EXCEPT !.mode = "NoteList"], m,
                     Exported(m, f, dialog))
           ELSE Same([a EXCEPT !.mode = "SelectingExportLocation",
                               !.export_file_input = "elsewhere"], m, f)
      [] key \in {"n", "Esc"} -> Same([a EXCEPT !.mode = "NoteList"], m, f)
      [] OTHER -> Same(a, m, f)

\* the editing keys of the path input leave a path of ExportPaths
handle_export_location_input(a, m, f, key, path) ==
    CASE key = "Enter" ->
           IF ~IsBlank(a.export_file_input)
           THEN Same([a EXCEPT !.export_file_input = "",
                               !.mode = "NoteList"],
                     m, Exported(m, f, a.export_file_input))
           ELSE Same(a, m, f)
      [] key = "Esc" ->
           Same([a EXCEPT !.export_file_input = "", !.mode = "NoteList"],
                m, f)
      [] key = "edit" -> Same([a EXCEPT !.export_file_input = path], m, f)
      [] OTHER -> Same(a, m, f)

\* the keys the text areas take leave a text of EditorTitles or of
\* EditorContents in the field that has the focus
handle_editor_input(a, m, f, cfg, key, text, id, t, nonce) ==
    CASE key = "save_and_exit" ->
           IF a.mode = "EditingNote"
           THEN IF ~cfg.auto_save /\ has_unsaved_changes(a)
                THEN Same([a EXCEPT !.mode = "ConfirmingUnsavedExit"], m, f)
                ELSE IF ~cfg.auto_save
                THEN Then(save_current_note(a, m, f, t, nonce),
                          return_to_list(a))
                ELSE Same(return_to_list(a), m, f)
           ELSE IF ~IsBlank(a.title_textarea) \/ ~IsBlank(a.content_textarea)
                THEN Then(save_new_note(a, m, f, id, t, nonce),
                          return_to_list(a))
                ELSE Same(return_to_list(a), m, f)
      [] key = "switch_field" ->
           Same([a EXCEPT !.edit_mode =
                             IF @ = "Title" THEN "Content" ELSE "Title"],
                m, f)
      [] key = "title_to_content" /\ a.edit_mode = "Title" ->
           Same([a EXCEPT !.edit_mode = "Content"], m, f)
      [] key = "toggle_highlighting" -> Same(a, m, f)
      [] OTHER ->
           LET a1 == IF a.edit_mode = "Title"
                     THEN [a EXCEPT !.title_textarea = text]
                     ELSE [a EXCEPT !.content_textarea = text]
               text_changed == a1 # a
           IN  IF /\ text_changed /\ cfg.auto_save
                  /\ a.mode = "EditingNote" /\ a.current_note_id # None
               THEN [save_current_note(a1, m, f, t, nonce) EXCEPT !.res = Ok]
               ELSE Same(a1, m, f)

\* handle_input on the key bound to manual_save, in the two editor modes
manual_save(a, m, f, id, t, nonce) ==
    IF a.mode = "EditingNote" THEN save_current_note(a, m, f, t, nonce)
    ELSE IF ~IsBlank(a.title_textarea) \/ ~IsBlank(a.content_textarea)
    THEN Then(save_new_note(a, m, f, id, t, nonce), return_to_list(a))
    ELSE Same(a, m, f)

\* ------------------------------------------------------------ key events
\* run_app reads keys until should_quit is set or handle_input fails
Running == app # NoApp /\ ~app.should_quit /\ ~app.failed

\* a key event after the password prompt counts against the budget
Keyed ==
    /\ calls < MaxKeys
    /\ calls' = calls + 1

\* the state handle_input leaves: an Err ends run_app
Land(w, handler, key, id, t) ==
    /\ app' = IF w.res = Ok THEN w.app ELSE [w.app EXCEPT !.failed = TRUE]
    /\ manager' = w.m
    /\ file' = w.file
    /\ now' = IF w.stamped THEN t ELSE now
    /\ uuids' = IF w.drew THEN id ELSE uuids
    /\ lastOp' = [op |-> "key", handler |-> handler, key |-> key,
                  res |-> w.res]
    /\ UNCHANGED <<trail, config>>
    /\ UNCHANGED cipherVars

\* the keys each handler tells apart, by the mode handle_input dispatches
\* on; "other" is any key the handler ignores
KeysOf(mode) ==
    CASE mode \in {"PasswordPrompt", "PasswordSetup"} ->
           {"Enter", "Esc", "Backspace", "Char", "manual_save",
            "export_plaintext", "other"}
      [] mode = "NoteList" ->
           {"quit", "create_note", "view_note", "search_notes", "edit_note",
            "delete_note", "move_up", "move_down", "toggle_pin",
            "manual_save", "other"}
      [] mode = "Searching" ->
           {"exit_search", "search_select", "search_view", "Backspace",
            "Delete", "Left", "Right", "Up", "Down", "Char", "other"}
      [] mode = "ViewingNote" ->
           {"return_to_list", "edit_from_view", "quit", "other"}
      [] mode \in {"EditingNote", "CreatingNote"} ->
           {"save_and_exit", "switch_field", "title_to_content",
            "toggle_highlighting", "input"}
      [] mode = "ConfirmingDelete" ->
           {"confirm_delete", "cancel_delete", "other"}
      [] mode = "ConfirmingUnsavedExit" ->
           {"save_and_exit_unsaved", "discard_and_exit", "cancel_exit",
            "other"}
      [] mode = "ConfirmingExport" -> {"y", "n", "Esc", "other"}
      [] mode = "SelectingExportLocation" -> {"Enter", "Esc", "edit", "other"}
      [] mode = "EncryptedFileWarning" ->
           {"Esc", "q", "Enter", "manual_save", "export_plaintext", "other"}
\* the characters typed into the search query
SearchChars == {"t", "x"}

ToggleHelp ==
    /\ Running
    /\ Keyed
    /\ \E w \in {Same([app EXCEPT !.help_visible = ~@], manager, file)} :
          Land(w, "handle_input", "toggle_help", uuids, now)

ManualSave(t, nonce) ==
    /\ Running
    /\ Keyed
    /\ app.mode \in {"EditingNote", "CreatingNote"}
    /\ \E w \in {manual_save(app, manager, file, uuids + 1, t, nonce)} :
          Land(w, "handle_input", "manual_save", uuids + 1, t)

ExportKey ==
    /\ Running
    /\ Keyed
    /\ app.mode = "NoteList"
    /\ \E w \in {Same([app EXCEPT !.mode = "ConfirmingExport"], manager,
                        file)} :
          Land(w, "handle_input", "export_plaintext", uuids, now)

HandlePasswordInput(key, fresh_salt, nonce) ==
    /\ Running
    /\ app.mode = "PasswordPrompt"
    /\ key \in TypingKeys => Len(app.password_input) < MaxTyped
    /\ calls' = calls
    /\ \E w \in {handle_password_input(app, manager, file, key, fresh_salt,
                                         nonce)} :
          Land(w, "handle_password_input", key, uuids, now)

HandlePasswordSetupInput(key, fresh_salt, nonce) ==
    /\ Running
    /\ app.mode = "PasswordSetup"
    /\ key \in TypingKeys => Len(app.password_input) < MaxTyped
    /\ calls' = calls
    /\ \E w \in {handle_password_setup_input(app, manager, file, key,
                                               fresh_salt, nonce)} :
          Land(w, "handle_password_setup_input", key, uuids, now)

HandleListInput(key, t, nonce) ==
    /\ Running
    /\ Keyed
    /\ app.mode = "NoteList"
    /\ key = "create_note" => uuids < MaxNotes
    /\ \E w \in handle_list_input(app, manager, file, config, key, t, nonce) :
          Land(w, "handle_list_input", key, uuids, t)

HandleSearchInput(key, c) ==
    /\ Running
    /\ Keyed
    /\ app.mode = "Searching"
    /\ key = "Char" => Len(app.search_query) < MaxQueryLen
    /\ \E w \in handle_search_input(app, manager, file, key, c) :
          Land(w, "handle_search_input", key, uuids, now)

HandleViewingInput(key) ==
    /\ Running
    /\ Keyed
    /\ app.mode = "ViewingNote"
    /\ \E w \in {handle_viewing_input(app, manager, file, key)} :
          Land(w, "handle_viewing_input", key, uuids, now)

HandleEditorInput(key, text, t, nonce) ==
    /\ Running
    /\ Keyed
    /\ app.mode \in {"EditingNote", "CreatingNote"}
    /\ text \in IF app.edit_mode = "Title" THEN EditorTitles
                ELSE EditorContents
    /\ \E w \in {handle_editor_input(app, manager, file, config, key, text,
                   uuids + 1, t, nonce)} :
          Land(w, "handle_editor_input", key, uuids + 1, t)

HandleDeleteConfirmationInput(key, nonce) ==
    /\ Running
    /\ Keyed
    /\ app.mode = "ConfirmingDelete"
    /\ \E w \in handle_delete_confirmation_input(app, manager, file, key,
                                                 nonce) :
          Land(w, "handle_delete_confirmation_input", key, uuids, now)

HandleUnsavedExitConfirmationInput(key, t, nonce) ==
    /\ Running
    /\ Keyed
    /\ app.mode = "ConfirmingUnsavedExit"
    /\ \E w \in {handle_unsaved_exit_confirmation_input(app, manager, file, key,
                   t, nonce)} :
          Land(w, "handle_unsaved_exit_confirmation_input", key, uuids, t)

HandleExportConfirmationInput(key, dialog) ==
    /\ Running
    /\ Keyed
    /\ app.mode = "ConfirmingExport"
    /\ \E w \in {handle_export_confirmation_input(app, manager, file, config,
                                                    key, dialog)} :
          Land(w, "handle_export_confirmation_input", key, uuids, now)

HandleExportLocationInput(key, path) ==
    /\ Running
    /\ Keyed
    /\ app.mode = "SelectingExportLocation"
    /\ \E w \in {handle_export_location_input(app, manager, file, key, path)} :
          Land(w, "handle_export_location_input", key, uuids, now)

HandleEncryptedFileWarningInput(key) ==
    /\ Running
    /\ Keyed
    /\ app.mode = "EncryptedFileWarning"
    /\ \E w \in {handle_encrypted_file_warning_input(app, manager, file, key)} :
          Land(w, "handle_encrypted_file_warning_input", key, uuids, now)

AppNext ==
    \/ ToggleHelp
    \/ \E t \in now..MaxTime, n \in AppNonces : ManualSave(t, n)
    \/ ExportKey
    \/ \E k \in KeysOf("PasswordPrompt"), s \in AppSalts, n \in AppNonces :
          HandlePasswordInput(k, s, n)
    \/ \E k \in KeysOf("PasswordSetup"), s \in AppSalts, n \in AppNonces :
          HandlePasswordSetupInput(k, s, n)
    \/ \E k \in KeysOf("NoteList"), t \in now..MaxTime, n \in AppNonces :
          HandleListInput(k, t, n)
    \/ \E k \in KeysOf("Searching"), c \in SearchChars : HandleSearchInput(k, c)
    \/ \E k \in KeysOf("ViewingNote") : HandleViewingInput(k)
    \/ \E k \in KeysOf("EditingNote"), x \in EditorTitles \cup EditorContents,
          t \in now..MaxTime, n \in AppNonces : HandleEditorInput(k, x, t, n)
    \/ \E k \in KeysOf("ConfirmingDelete"), n \in AppNonces :
          HandleDeleteConfirmationInput(k, n)
    \/ \E k \in KeysOf("ConfirmingUnsavedExit"), t \in now..MaxTime,
          n \in AppNonces : HandleUnsavedExitConfirmationInput(k, t, n)
    \/ \E k \in KeysOf("ConfirmingExport"), d \in DialogOutcomes :
          HandleExportConfirmationInput(k, d)
    \/ \E k \in KeysOf("SelectingExportLocation"), p \in ExportPaths :
          HandleExportLocationInput(k, p)
    \/ \E k \in KeysOf("EncryptedFileWarning") :
          HandleEncryptedFileWarningInput(k)

AppSpec == AppInit /\ [][AppNext]_vars

\* ----------------------------------------------------------------- claims
ValidPasswords ==
    {p \in Passwords : StrLen(p) >= 8 /\ StrLen(p) <= 256}

\* a new store opened on file f with encryption enabled, then unlocked
Reopen(f, password, fresh_salt, nonce) ==
    LET c == new(TRUE, f, nonce)
    IN  unlock_encryption(c.m, c.file, password, fresh_salt, nonce)

\* f holds plaintext note JSON / an envelope carrying the magic constant
HoldsPlainNotes(f) == f.kind = "notes"
HoldsEnvelope(f) == f.kind = "envelope" /\ f.magic = "ENCRYPTED_NOTES"

\* C1: whenever unlock_encryption returns an error on a store that was not
\* ready, the store is still Locked afterwards (is_ready() is false, no key
\* is held) and the backing file is unchanged.
C1_FailedUnlockLeavesLocked ==
    [][\A p \in Passwords, s \in Salts, n \in Nonces :
          (UnlockEncryption(p, s, n) /\ ~is_ready(manager)
             /\ lastOp'.res # Ok)
          => (~is_ready(manager') /\ manager'.key = NoKey /\ file' = file)
      ]_vars

\* C2: a store with encryption enabled constructed on a file that holds
\* plaintext note JSON and unlocked with a valid password migrates the
\* file: the call succeeds, the file is then detected as encrypted, and
\* reopening with the same password gives exactly the original notes.
C2_PlaintextFileIsMigrated ==
    [][\A p \in ValidPasswords, s \in Salts, n \in Nonces :
          (UnlockEncryption(p, s, n) /\ manager = EmptyManager(TRUE)
             /\ HoldsPlainNotes(file))
          => /\ lastOp'.res = Ok
             /\ is_file_encrypted(file')
             /\ \A s2 \in Salts, n2 \in Nonces :
                   LET r == Reopen(file', p, s2, n2)
                   IN  r.res = Ok /\ r.m.notes = from_str_notes(file).notes
      ]_vars

IsPermutationOf(seq, S) ==
    /\ Len(seq) = Cardinality(S)
    /\ {seq[i] : i \in DOMAIN seq} = S

\* C3: get_all_notes() returns exactly the ids in the mapping, each once;
\* whenever cache_dirty is false, sorted_note_ids is a permutation of the
\* mapping's keys.
C3_CacheIsPermutationOfKeys ==
    manager # NoManager =>
        /\ ~manager.cache_dirty =>
              IsPermutationOf(manager.sorted_note_ids, DOMAIN manager.notes)
        /\ lastOp.op = "get_all_notes" =>
              IsPermutationOf(lastOp.ret, DOMAIN manager.notes)

\* get_all_notes() has returned a loaded note and an added one
C3_Witness ==
    /\ manager # NoManager
    /\ lastOp.op = "get_all_notes"
    /\ Len(lastOp.ret) >= 2
    /\ ~manager.cache_dirty

PinnedFirstNewestFirst(seq, notes) ==
    \A i, j \in DOMAIN seq :
        i < j =>
            /\ notes[seq[j]].pinned => notes[seq[i]].pinned
            /\ notes[seq[i]].pinned = notes[seq[j]].pinned
                  => notes[seq[i]].updated_at >= notes[seq[j]].updated_at

\* C4: in the sequence get_all_notes() returns every pinned note precedes
\* every unpinned one, and within each group updated_at is non-increasing.
C4_PinnedFirstThenNewest ==
    (manager # NoManager /\ lastOp.op = "get_all_notes")
        => PinnedFirstNewestFirst(lastOp.ret, manager.notes)

\* get_all_notes() has put a pinned note before a more recent unpinned one
C4_Witness ==
    /\ manager # NoManager
    /\ lastOp.op = "get_all_notes"
    /\ Len(lastOp.ret) >= 2
    /\ manager.notes[lastOp.ret[1]].pinned
    /\ ~manager.notes[lastOp.ret[2]].pinned
    /\ manager.notes[lastOp.ret[1]].updated_at
          < manager.notes[lastOp.ret[2]].updated_at

\* C5: after a successful unlock_encryption on a store with no existing
\* file, any sequence of add/mutate/delete followed by a successful
\* save_notes() writes an encrypted envelope, and a new store on the same
\* path, unlocked with the same password, holds a mapping equal to the
\* saved one.
C5_EncryptedSaveRoundTrips ==
    [][\A n \in Nonces :
          (SaveNotes(n) /\ trail = "created" /\ lastOp'.res = Ok)
          => /\ is_file_encrypted(file')
             /\ \A s2 \in Salts, n2 \in Nonces :
                   LET r == Reopen(file', manager.key.pw, s2, n2)
                   IN  r.res = Ok /\ r.m.notes = manager.notes
      ]_vars

\* C6: with encryption enabled, every write the store makes to its backing
\* file is an encrypted envelope; plaintext note JSON is never written to it.
C6_OnlyEnvelopesAreWritten ==
    [][(manager # NoManager /\ manager.encryption_enabled /\ file' # file)
          => is_file_encrypted(file')
      ]_vars

\* C7: if save_notes() returns an error, the backing file's content is
\* exactly what it was: nothing partial is written.
C7_FailedSaveLeavesFile ==
    [][\A n \in Nonces :
          (SaveNotes(n) /\ lastOp'.res # Ok) => file' = file
      ]_vars

\* save_notes() has failed in encryption with an earlier envelope on disk
C7_Witness ==
    /\ lastOp.op = "save_notes"
    /\ lastOp.res = Err("InvalidInput", "content too large")
    /\ HoldsEnvelope(file)

\* C8: save_notes() on a store that is not ready returns PermissionDenied
\* and writes nothing.
C8_SaveWhenNotReadyIsDenied ==
    [][\A n \in Nonces :
          (SaveNotes(n) /\ manager.encryption_enabled /\ manager.key = NoKey)
          => /\ lastOp'.res.kind = "PermissionDenied"
             /\ file' = file
             /\ manager' = manager
      ]_vars

\* save_notes() has been refused on a locked store that holds a note
C8_Witness ==
    /\ manager # NoManager
    /\ lastOp.op = "save_notes"
    /\ lastOp.res.kind = "PermissionDenied"
    /\ manager.encryption_enabled
    /\ manager.key = NoKey
    /\ DOMAIN manager.notes # {}

\* C9: constructing a store with encryption disabled on a file detected as
\* encrypted fails with the ENCRYPTED_FILE_DETECTED error, yields no store
\* and leaves the file unchanged.
C9_EncryptedFileIsRefused ==
    [][\A n \in Nonces :
          (New(FALSE, n) /\ HoldsEnvelope(file))
          => /\ lastOp'.res = Err("InvalidData", "ENCRYPTED_FILE_DETECTED")
             /\ manager' = NoManager
             /\ file' = file
      ]_vars

\* the constructor has refused an envelope that this program wrote
C9_Witness ==
    /\ lastOp.op = "new"
    /\ lastOp.res.msg = "ENCRYPTED_FILE_DETECTED"
    /\ HoldsEnvelope(file)
    /\ file # SeedEnvelope
    /\ manager = NoManager

\* C10: unlock_encryption on an encryption-enabled store whose file exists
\* but is not detected as encrypted returns an error, derives no key, sets
\* no salt, and modifies neither the file nor the mapping.
C10_UnlockRejectsUnencryptedFile ==
    [][\A p \in Passwords, s \in Salts, n \in Nonces :
          (UnlockEncryption(p, s, n) /\ manager.encryption_enabled
             /\ exists(file) /\ ~HoldsEnvelope(file))
          => /\ lastOp'.res # Ok
             /\ manager' = manager
             /\ file' = file
      ]_vars

\* a valid password has been refused because the file holds plaintext notes
C10_Witness ==
    /\ manager # NoManager
    /\ lastOp.op = "unlock_encryption"
    /\ lastOp.res = Err("InvalidData", "file is not encrypted")
    /\ HoldsPlainNotes(file)
    /\ manager.key = NoKey
    /\ manager.salt = None

\* C11: unlock_encryption with a valid password on an encryption-enabled
\* store whose backing file does not exist succeeds as vault creation: the
\* freshly generated 16-byte salt is stored, the key is the one derived from
\* the password and that salt, the mapping is unchanged, and the file still
\* does not exist.
C11_UnlockCreatesVault ==
    [][\A p \in ValidPasswords, s \in Salts, n \in Nonces :
          (UnlockEncryption(p, s, n) /\ manager.encryption_enabled
             /\ file = Absent)
          => /\ lastOp'.res = Ok
             /\ manager'.salt = Some(s)
             /\ s.len = 16
             /\ manager'.key = derive_key(p, s)
             /\ manager'.notes = manager.notes
             /\ file' = Absent
      ]_vars

\* a vault has been created on a store that already held a note, and no
\* file exists yet
C11_Witness ==
    /\ manager # NoManager
    /\ lastOp.op = "unlock_encryption"
    /\ lastOp.res = Ok
    /\ file = Absent
    /\ manager.salt # None
    /\ manager.key # NoKey
    /\ DOMAIN manager.notes # {}

\* the notes new() loads from f when encryption is disabled
LoadedNotes(f) ==
    IF f.kind = "notes" THEN from_str_notes(f).notes ELSE << >>

\* C12: a store constructed with encryption enabled performs no load, holds
\* an empty mapping, and is_ready() is false in every state until an
\* unlock_encryption call succeeds; a store constructed with encryption
\* disabled is ready at once with the file's notes loaded.
C12_NotReadyUntilUnlocked ==
    [][/\ \A n \in Nonces :
             New(TRUE, n) => (manager' = EmptyManager(TRUE) /\ file' = file)
       /\ (manager' # NoManager /\ manager'.encryption_enabled
             /\ trail' = "locked")
          => ~is_ready(manager')
       /\ \A n \in Nonces :
             (New(FALSE, n) /\ lastOp'.res = Ok)
             => (is_ready(manager') /\ manager'.notes = LoadedNotes(file))
      ]_vars

\* the number of characters of a password
CharCount(p) ==
    IF p = AccentedPassword THEN 5
    ELSE IF p = WidePassword THEN 200
    ELSE Len(p)

PasswordErrors == {"password too short", "password too long"}

C14_DecryptInvertsEncrypt ==
    [][/\ (lastOp'.op = "encrypt" /\ is_unlocked(encryption)
             /\ DataLen(lastOp'.data) <= MAX_CONTENT_SIZE
             /\ lastOp'.salt.len = 16)
          => lastOp'.res = Ok
       /\ lastOp'.op = "decrypt" =>
             \A e \in sealed :
                (lastOp'.encrypted = e.enc /\ encryption = e.key)
                => (lastOp'.res = Ok /\ lastOp'.out = Some(e.data))
      ]_vars

\* a buffer of exactly 100 MiB has come back from decrypt
C14_Witness ==
    /\ lastOp.op = "decrypt"
    /\ lastOp.res = Ok
    /\ lastOp.out = Some(Blob(MAX_CONTENT_SIZE))
    /\ \E e \in sealed : e.enc = lastOp.encrypted /\ e.key = encryption

\* C15: for valid passwords P1 # P2 and the same salt, decrypt on a manager
\* unlocked with P2 of an envelope encrypted by a manager unlocked with P1
\* returns an error and no plaintext.
C15_WrongPasswordFails ==
    [][lastOp'.op = "decrypt" =>
          \A e \in sealed :
             (lastOp'.encrypted = e.enc /\ is_unlocked(encryption)
                /\ encryption.pw # e.key.pw /\ encryption.salt = e.key.salt)
             => (lastOp'.res # Ok /\ lastOp'.out = None)
      ]_vars

\* decrypt has failed on an envelope sealed under another password and the
\* same salt
C15_Witness ==
    /\ lastOp.op = "decrypt"
    /\ lastOp.res = Err("InvalidData", "decryption failed")
    /\ is_unlocked(encryption)
    /\ \E e \in sealed :
          /\ e.enc = lastOp.encrypted
          /\ encryption.pw # e.key.pw
          /\ encryption.salt = e.key.salt

\* both envelopes open under the key to the buffers they were made from
BothDecrypt(key, e, data, enc) ==
    /\ decrypt(key, e.enc) = [res |-> Ok, data |-> e.data]
    /\ decrypt(key, enc) = [res |-> Ok, data |-> data]

Malformed(encrypted) ==
    \/ ~B64Decode(encrypted.nonce).ok
    \/ ~B64Decode(encrypted.data).ok
    \/ B64Decode(encrypted.nonce).bytes.len # 12
    \/ CipherLen(B64Decode(encrypted.data).bytes) > MAX_CONTENT_SIZE + 16

\* C18 as stated: decrypt on an unlocked manager reports a magic mismatch as
\* "invalid format" and every base64, size and authentication failure as
\* one and the same "decryption failed".
C18_OneMessageAfterMagic ==
    [][(lastOp'.op = "decrypt" /\ is_unlocked(encryption)
          /\ lastOp'.res # Ok)
       => IF lastOp'.encrypted.magic # "ENCRYPTED_NOTES"
          THEN lastOp'.res = Err("InvalidData", "invalid format")
          ELSE lastOp'.res = Err("InvalidData", "decryption failed")
      ]_vars

\* C18, as the code reports: decrypt on an unlocked manager reports a magic
\* mismatch, a base64 failure and a size failure as "invalid format", and an
\* authentication failure as "decryption failed"; a well-formed envelope
\* fails in one way only, whether the key is wrong or the ciphertext was
\* altered.
C18_TwoGenericMessages ==
    [][(lastOp'.op = "decrypt" /\ is_unlocked(encryption)) =>
          IF lastOp'.encrypted.magic # "ENCRYPTED_NOTES"
             \/ Malformed(lastOp'.encrypted)
          THEN lastOp'.res = Err("InvalidData", "invalid format")
          ELSE \/ lastOp'.res = Ok
               \/ lastOp'.res = Err("InvalidData", "decryption failed")
      ]_vars

\* decrypt has answered "invalid format" to an envelope with the right
\* magic whose data field is not base64
C18_Witness ==
    /\ lastOp.op = "decrypt"
    /\ is_unlocked(encryption)
    /\ lastOp.encrypted.magic = "ENCRYPTED_NOTES"
    /\ ~B64Decode(lastOp.encrypted.data).ok
    /\ lastOp.res = Err("InvalidData", "invalid format")

\* C19: is_file_encrypted(content) is true exactly when content parses as
\* the envelope structure and its magic equals the constant; for every other
\* content it returns false; it raises no error and changes nothing.
C19_DetectsEnvelopeWithMagic ==
    [][lastOp'.op = "is_file_encrypted" =>
          /\ lastOp'.ret = HoldsEnvelope(lastOp'.content)
          /\ lastOp'.res = Ok
          /\ UNCHANGED cipherVars
      ]_vars

\* is_file_encrypted has returned false for an envelope with another magic
C19_Witness ==
    /\ lastOp.op = "is_file_encrypted"
    /\ lastOp.content.kind = "envelope"
    /\ lastOp.content.magic # "ENCRYPTED_NOTES"
    /\ lastOp.ret = FALSE

\* C20: the Encryption Manager starts Locked; a successful unlock makes
\* is_unlocked() true; lock(), and drop, discard the key and make it false;
\* while Locked, encrypt and decrypt fail; a failed unlock leaves the lock
\* state and any held key unchanged; is_unlocked() changes nothing.
C20_TwoStateMachine ==
    [][/\ lastOp.op = "start" => ~is_unlocked(encryption)
       /\ (lastOp'.op = "unlock" /\ lastOp'.res = Ok)
          => is_unlocked(encryption')
       /\ (lastOp'.op = "unlock" /\ lastOp'.res # Ok)
          => encryption' = encryption
       /\ lastOp'.op \in {"lock", "drop"}
          => (encryption' = NoKey /\ ~is_unlocked(encryption'))
       /\ (lastOp'.op \in {"encrypt", "decrypt"}
             /\ ~is_unlocked(encryption))
          => (lastOp'.res # Ok /\ lastOp'.out = None)
       /\ lastOp'.op = "is_unlocked"
          => /\ lastOp'.ret = (encryption # NoKey)
             /\ UNCHANGED cipherVars
      ]_vars

\* a manager that had encrypted was locked, and decrypt of its own envelope
\* then failed
C20_Witness ==
    /\ lastOp.op = "decrypt"
    /\ lastOp.res.kind = "PermissionDenied"
    /\ ~is_unlocked(encryption)
    /\ \E e \in sealed : e.enc = lastOp.encrypted

\* C21: when unlock succeeds on a manager that already holds a key, the key
\* held afterwards is the one derived from the arguments of this call and
\* nothing of the earlier key remains: an envelope encrypt returned under the
\* earlier key decrypts afterwards exactly when the new key equals the
\* earlier one, and the new key equals the earlier one whenever the
\* arguments are those the earlier key was derived from.
C21_UnlockReplacesKey ==
    [][(lastOp'.op = "unlock" /\ lastOp'.res = Ok /\ is_unlocked(encryption))
          => /\ encryption' = derive_key(lastOp'.password, lastOp'.salt)
             /\ \A e \in sealed :
                   e.key = encryption
                      => (decrypt(encryption', e.enc).res = Ok
                             <=> encryption' = encryption)
             /\ (/\ lastOp'.password = encryption.pw
                 /\ lastOp'.salt = encryption.salt)
                    => encryption' = encryption]_vars
C21_Witness ==
    /\ lastOp.op = "unlock"
    /\ lastOp.res = Ok
    /\ \E e \in sealed :
          /\ e.key # encryption
          /\ decrypt(e.key, e.enc).res = Ok
          /\ decrypt(encryption, e.enc).res # Ok

\* C22 (as stated): once a store holds a salt, no call made on that store
\* leaves it holding a different one.
C22_SaltGeneratedOnce ==
    [][(manager # NoManager /\ manager' # NoManager /\ manager.salt # None)
          => manager'.salt = manager.salt]_vars

\* the salt an envelope carries
SaltOf(f) == B64Decode(f.salt).bytes

\* C22 (amended): the salt of a store changes only in unlock_encryption: to
\* a freshly generated one in a call made while no backing file exists, be
\* it the first such call or a later one, and to the salt read from the file
\* when the file holds an envelope. A store that holds a key holds the salt
\* that key was derived from. Every envelope save_notes writes carries the
\* salt the store holds, and when the file held an envelope before the save,
\* the salt of the file is unchanged.
C22_SaltFollowsUnlock ==
    [][(manager # NoManager /\ manager' # NoManager)
          => /\ manager'.salt # manager.salt
                   => /\ lastOp'.op = "unlock_encryption"
                      /\ \/ file = Absent /\ manager'.salt.some \in Salts
                         \/ /\ HoldsEnvelope(file)
                            /\ manager'.salt = Some(SaltOf(file))
             /\ is_unlocked(manager'.key)
                   => manager'.salt = Some(manager'.key.salt)
             /\ (/\ lastOp'.op = "save_notes"
                 /\ lastOp'.res = Ok
                 /\ manager.encryption_enabled)
                   => /\ HoldsEnvelope(file')
                      /\ SaltOf(file') = manager.salt.some
                      /\ HoldsEnvelope(file) => file'.salt = file.salt]_vars
C22_Witness ==
    /\ manager # NoManager
    /\ lastOp.op = "save_notes"
    /\ lastOp.res = Ok
    /\ HoldsEnvelope(file)
    /\ manager.salt = Some(Bytes(2, SALT_LEN))
    /\ SaltOf(file) = Bytes(2, SALT_LEN)

\* C23: export_plaintext on a store that is not ready fails with
\* PermissionDenied and writes nothing; on a ready store it succeeds and
\* writes to the destination the unencrypted JSON of the current mapping,
\* which parses back to that mapping and is never an envelope, also when
\* encryption is enabled. In both cases the store in memory is unchanged,
\* and a file other than the destination is unchanged.
C23_ExportWritesPlaintext ==
    [][lastOp'.op = "export_plaintext"
          => /\ manager' = manager
             /\ ~is_ready(manager)
                   => /\ lastOp'.res.kind = "PermissionDenied"
                      /\ lastOp'.wrote = Absent
                      /\ file' = file
             /\ is_ready(manager)
                   => /\ lastOp'.res = Ok
                      /\ lastOp'.wrote = to_string_pretty(manager.notes)
                      /\ from_str_notes(lastOp'.wrote).ok
                      /\ from_str_notes(lastOp'.wrote).notes = manager.notes
                      /\ ~from_str_encrypted(lastOp'.wrote).ok
                      /\ ~is_file_encrypted(lastOp'.wrote)
                      /\ file' = IF lastOp'.dest = "notes_file"
                                 THEN lastOp'.wrote ELSE file]_vars
C23_Witness ==
    /\ lastOp.op = "export_plaintext"
    /\ lastOp.res = Ok
    /\ lastOp.dest = "elsewhere"
    /\ manager.encryption_enabled
    /\ manager.notes # << >>
    /\ lastOp.wrote = to_string_pretty(manager.notes)
    /\ HoldsEnvelope(file)

\* C24: delete_note with an id that is not a key returns None and leaves the
\* whole store as it was: the mapping, the dirty flag, the cached order and
\* with them the sequence get_all_notes returns. With an id that is a key it
\* removes that note and no other, returns the removed note, and marks the
\* cache dirty.
C24_DeleteNote ==
    [][lastOp'.op = "delete_note"
          => /\ lastOp'.res = Ok
             /\ lastOp'.id \notin DOMAIN manager.notes
                   => /\ lastOp'.ret = None
                      /\ manager'.notes = manager.notes
                      /\ manager'.cache_dirty = manager.cache_dirty
                      /\ manager' = manager
                      /\ \A order \in SortedOrders(manager.notes) :
                            get_all_notes(update_sorted_cache(manager', order))
                              = get_all_notes(update_sorted_cache(manager,
                                                                  order))
             /\ lastOp'.id \in DOMAIN manager.notes
                   => /\ lastOp'.ret = Some(manager.notes[lastOp'.id])
                      /\ DOMAIN manager'.notes
                            = DOMAIN manager.notes \ {lastOp'.id}
                      /\ \A k \in DOMAIN manager'.notes :
                            manager'.notes[k] = manager.notes[k]
                      /\ manager'.cache_dirty]_vars
C24_Witness ==
    /\ lastOp.op = "delete_note"
    /\ lastOp.ret = None
    /\ manager.notes # << >>
    /\ ~manager.cache_dirty
    /\ get_all_notes(manager) # << >>

\* the test search_notes applies to a note, written from the claim
Matches(note, query) ==
    \/ contains(to_lowercase(note.title), to_lowercase(query))
    \/ contains(to_lowercase(note.content), to_lowercase(query))

\* C25: search_notes(q) returns exactly the notes get_all_notes() returns
\* whose lowercased title or lowercased content contains the lowercased q,
\* in the same relative order; for the empty query that is the whole of
\* get_all_notes(); and a query that differs from q only in the case of its
\* letters returns the same notes.
C25_SearchFiltersInOrder ==
    [][lastOp'.op = "search_notes"
          => LET all == get_all_notes(manager')
             IN  /\ lastOp'.ret
                      = SelectSeq(all, LAMBDA id :
                                     Matches(manager'.notes[id],
                                             lastOp'.query))
                 /\ lastOp'.query = "" => lastOp'.ret = all
                 /\ \A q \in Queries :
                       to_lowercase(q) = to_lowercase(lastOp'.query)
                          => search_notes(manager', q) = lastOp'.ret
                 /\ manager'.notes = manager.notes]_vars
C25_Witness ==
    /\ lastOp.op = "search_notes"
    /\ lastOp.query = "c"
    /\ Len(get_all_notes(manager)) = 2
    /\ Len(lastOp.ret) = 1
    /\ manager.notes[lastOp.ret[1]].content = "C"

\* the three calls that change a note through its handle
Mutators == {"update_title", "update_content", "toggle_pin"}

\* C26 (as stated): in every call on a store, a note that is in the mapping
\* before and after keeps its id and its created_at, and keeps its
\* updated_at unless the call is update_title, update_content or toggle_pin
\* on that note, which sets updated_at to the current time, not earlier
\* than it was.
C26_UpdatedAtOnlyByMutators ==
    [][(manager # NoManager /\ manager' # NoManager)
          => /\ \A id \in DOMAIN manager.notes \cap DOMAIN manager'.notes :
                   /\ manager'.notes[id].id = manager.notes[id].id
                   /\ manager'.notes[id].created_at
                         = manager.notes[id].created_at
                   /\ manager'.notes[id].updated_at
                         # manager.notes[id].updated_at
                         => /\ lastOp'.op \in Mutators
                            /\ lastOp'.id = id
             /\ lastOp'.op \in Mutators
                   => /\ manager'.notes[lastOp'.id].updated_at = now'
                      /\ manager'.notes[lastOp'.id].updated_at
                            >= manager.notes[lastOp'.id].updated_at]_vars

\* C26 (amended): as above, except that a successful unlock_encryption on a
\* file that holds an envelope replaces the mapping with the notes of the
\* file, and a note then carries the updated_at the file gives it, which is
\* earlier than the one it had when it was edited after the file was
\* written.
C26_UpdatedAtByMutatorsOrReload ==
    [][(manager # NoManager /\ manager' # NoManager)
          => /\ \A id \in DOMAIN manager.notes \cap DOMAIN manager'.notes :
                   /\ manager'.notes[id].id = manager.notes[id].id
                   /\ manager'.notes[id].created_at
                         = manager.notes[id].created_at
                   /\ manager'.notes[id].updated_at
                         # manager.notes[id].updated_at
                         => \/ /\ lastOp'.op \in Mutators
                               /\ lastOp'.id = id
                            \/ /\ lastOp'.op = "unlock_encryption"
                               /\ lastOp'.res = Ok
                               /\ HoldsEnvelope(file)
                               /\ manager'.notes
                                     = from_str_notes(
                                          decrypt(manager'.key,
                                                  from_str_encrypted(file))
                                             .data).notes
             /\ lastOp'.op \in Mutators
                   => /\ manager'.notes[lastOp'.id].updated_at = now'
                      /\ manager'.notes[lastOp'.id].updated_at
                            >= manager.notes[lastOp'.id].updated_at]_vars
C26_Witness ==
    /\ manager # NoManager
    /\ lastOp.op \in Mutators
    /\ manager.notes[lastOp.id].created_at = 0
    /\ manager.notes[lastOp.id].updated_at = MaxTime
    /\ \E id \in DOMAIN manager.notes : id # lastOp.id

\* C27: in every state every note of the store has created_at <= updated_at.
C27_CreatedBeforeUpdated ==
    manager # NoManager
       => \A id \in DOMAIN manager.notes :
             manager.notes[id].created_at <= manager.notes[id].updated_at

\* C28: the ids Uuid::new_v4 hands out only grow and every key a store holds
\* was handed out before, so that the id add_note takes, which is above all
\* of them, is not a key and never was one, also after deletions. add_note
\* inserts under that id exactly one note, with the given title and content,
\* pinned = false and created_at = updated_at = the current time, leaves
\* every other note as it was, marks the cache dirty, and returns the note
\* it stored.
C28_AddNoteInsertsFresh ==
    [][/\ uuids' >= uuids
       /\ manager' # NoManager => DOMAIN manager'.notes \subseteq 0..uuids'
       /\ (manager # NoManager /\ manager' # NoManager
             /\ lastOp'.op # "add_note")
          => DOMAIN manager'.notes \subseteq 0..uuids
       /\ lastOp'.op = "add_note"
          => LET id == lastOp'.id
             IN  /\ id > uuids
                 /\ id \notin DOMAIN manager.notes
                 /\ DOMAIN manager'.notes = DOMAIN manager.notes \cup {id}
                 /\ \A k \in DOMAIN manager.notes :
                       manager'.notes[k] = manager.notes[k]
                 /\ manager'.notes[id]
                       = [id |-> id, title |-> lastOp'.title,
                          content |-> lastOp'.content, created_at |-> now',
                          updated_at |-> now', pinned |-> FALSE]
                 /\ manager'.cache_dirty
                 /\ lastOp'.res = Ok
                 /\ lastOp'.ret = manager'.notes[id]]_vars
C28_Witness ==
    /\ manager # NoManager
    /\ ~manager.encryption_enabled
    /\ file = to_string_pretty(SeedNotes)
    /\ lastOp.op = "add_note"
    /\ DOMAIN manager.notes = {lastOp.id}
    /\ lastOp.id \notin DOMAIN SeedNotes

\* the two calls that read the sorted sequence
Reads == {"get_all_notes", "search_notes"}

\* C29: cache_dirty is true after every add_note, every delete_note that
\* removed a note, every get_note_mut that found its note (alone or followed
\* by an edit through the handle) and every successful load (new with
\* encryption disabled, unlock_encryption on an existing file). It goes from
\* true to false only in get_all_notes and search_notes, which then leave a
\* sorted order of the mapping in the cache; a read that finds the flag
\* false rebuilds nothing. Hence of two consecutive reads the second
\* changes nothing in the store and sees the same sequence, and returns the
\* same result when it is the same call.
C29_DirtyFlagProtocol ==
    [][manager' # NoManager
          => /\ lastOp'.op = "add_note" => manager'.cache_dirty
             /\ (lastOp'.op \in {"delete_note", "get_note_mut"}
                   /\ lastOp'.found) => manager'.cache_dirty
             /\ (lastOp'.op \in {"delete_note", "get_note_mut"}
                   /\ ~lastOp'.found) => manager' = manager
             /\ lastOp'.op \in Mutators => manager'.cache_dirty
             /\ (lastOp'.op = "new" /\ ~manager'.encryption_enabled)
                   => manager'.cache_dirty
             /\ (lastOp'.op = "unlock_encryption" /\ lastOp'.res = Ok
                   /\ exists(file)) => manager'.cache_dirty
             /\ (manager # NoManager /\ manager.cache_dirty
                   /\ ~manager'.cache_dirty)
                   => /\ lastOp'.op \in Reads
                      /\ manager'.sorted_note_ids
                            \in SortedOrders(manager.notes)
             /\ lastOp'.op \in Reads
                   => /\ ~manager'.cache_dirty
                      /\ manager'.notes = manager.notes
                      /\ ~manager.cache_dirty => manager' = manager
             /\ (lastOp.op \in Reads /\ lastOp'.op \in Reads)
                   => /\ manager' = manager
                      /\ get_all_notes(manager') = get_all_notes(manager)
                      /\ (/\ lastOp'.op = lastOp.op
                          /\ lastOp'.op = "search_notes"
                                => lastOp'.query = lastOp.query)
                            => lastOp'.ret = lastOp.ret]_vars
C29_Witness ==
    /\ manager # NoManager
    /\ lastOp.op \in Reads
    /\ ~manager.cache_dirty
    /\ Len(manager.sorted_note_ids) = 2
    /\ manager.sorted_note_ids \in SortedOrders(manager.notes)

\* C30: decrypt compares the magic before it decodes any base64 and before
\* it touches the cipher: on an unlocked manager an envelope whose magic is
\* not the constant is refused with "invalid format" after that comparison
\* alone, whatever its nonce and data fields hold; and whenever decrypt
\* runs anything, the comparison of the magic is what it runs first.
C30_MagicCheckedFirst ==
    [][(lastOp'.op = "decrypt" /\ is_unlocked(encryption))
          => /\ lastOp'.ran # << >>
             /\ lastOp'.ran[1] = "ct_eq"
             /\ lastOp'.encrypted.magic # MAGIC_HEADER
                   => /\ lastOp'.res = Err("InvalidData", "invalid format")
                      /\ lastOp'.out = None
                      /\ lastOp'.ran = <<"ct_eq">>
             /\ lastOp'.encrypted.magic = MAGIC_HEADER
                   => Len(lastOp'.ran) > 1]_vars
C30_Witness ==
    /\ lastOp.op = "decrypt"
    /\ is_unlocked(encryption)
    /\ lastOp.encrypted.magic # MAGIC_HEADER
    /\ lastOp.encrypted.nonce = NotBase64
    /\ lastOp.res = Err("InvalidData", "invalid format")
    /\ lastOp.ran = <<"ct_eq">>

C32_UnlockLoadsFileOnly ==
    [][(lastOp'.op = "unlock_encryption" /\ lastOp'.res = Ok /\ exists(file))
          => /\ HoldsEnvelope(file)
             /\ file' = file
             /\ LET d == decrypt(manager'.key, from_str_encrypted(file))
                IN  /\ d.res = Ok
                    /\ manager'.notes = from_str_notes(d.data).notes
             /\ file = SeedEnvelope => manager'.notes = SeedNotes
             /\ manager'.cache_dirty]_vars
C32_Witness ==
    /\ calls = 3
    /\ uuids = 1
    /\ lastOp.op = "unlock_encryption"
    /\ lastOp.res = Ok
    /\ file = SeedEnvelope
    /\ manager.notes = SeedNotes

\* C33: in every state every entry of the mapping sits under the id of its
\* note.
C33_KeyIsNoteId ==
    manager # NoManager
       => \A k \in DOMAIN manager.notes : manager.notes[k].id = k

\* the two modes in which the App asks for the password
PasswordModes == {"PasswordPrompt", "PasswordSetup"}

\* C35: a key event in PasswordPrompt or PasswordSetup leaves the mode as
\* it is, unless it is Enter on a password unlock_encryption accepts, which
\* leads to NoteList; quitting only sets should_quit; no key event in those
\* modes changes the file or the notes of the store other than by that
\* unlock; and in every state whose mode is another one the store is ready.
C35_PasswordModesLeftByUnlock ==
    /\ [](app.mode \notin PasswordModes => is_ready(manager))
    /\ [][app.mode \in PasswordModes
            => /\ app'.mode \in {app.mode, "NoteList"}
               /\ file' = file
               /\ app'.mode = "NoteList"
                     => /\ lastOp'.key = "Enter"
                        /\ \E s \in AppSalts, n \in AppNonces :
                              LET r == unlock_encryption(
                                          manager, file, app.password_input,
                                          s, n)
                              IN  r.res = Ok /\ manager' = r.m
               /\ app'.mode = app.mode
                     => /\ manager'.notes = manager.notes
                        /\ lastOp'.key # "Esc" => ~app'.should_quit
                        /\ app'.should_quit
                              => app' = [app EXCEPT !.should_quit = TRUE]]_vars
C35_Witness ==
    /\ app.mode = "NoteList"
    /\ config.encryption_enabled
    /\ lastOp.op = "key"
    /\ lastOp.key = "Enter"
    /\ calls = 0
    /\ manager.notes = SeedNotes
    /\ is_ready(manager)

\* C36: an App given an encrypted notes file with encryption disabled
\* starts in EncryptedFileWarning; a key event in that mode leaves the mode,
\* the file and the manager as they are, and changes nothing of the App but
\* should_quit, which it can set, and help_visible, which it can flip.
C36_WarningOnlyQuits ==
    /\ []((lastOp.op = "start" /\ ~config.encryption_enabled
              /\ is_file_encrypted(file))
            => app.mode = "EncryptedFileWarning")
    /\ [][app.mode = "EncryptedFileWarning"
            => /\ app'.mode = "EncryptedFileWarning"
               /\ file' = file
               /\ manager' = manager
               /\ \/ app' = app
                  \/ app' = [app EXCEPT !.should_quit = TRUE]
                  \/ app' = [app EXCEPT !.help_visible = ~@]]_vars
C36_Witness ==
    /\ app.mode = "EncryptedFileWarning"
    /\ ~config.encryption_enabled
    /\ file = AppEnvelope
    /\ app.should_quit
    /\ ~app.help_visible
    /\ calls = 2

\* the keys that delete the selected note without a further question
DeletingKeys == {"delete_note", "confirm_delete"}

\* C37: while the App runs, in NoteList mode selected_note_index is 0 or
\* less than the number of notes of the store, and in Searching mode with
\* search results it is less than their number; and a delete of the last
\* entry of a list of several notes leaves the selection on the entry that
\* is the last one afterwards.
C37_SelectionInRange ==
    /\ [](~app.failed
            => /\ app.mode = "NoteList"
                    => \/ app.selected_note_index = 0
                       \/ app.selected_note_index
                             < Cardinality(DOMAIN manager.notes)
               /\ (app.mode = "Searching" /\ app.search_results # << >>)
                    => app.selected_note_index < Len(app.search_results))
    /\ [][(/\ lastOp'.key \in DeletingKeys
            /\ lastOp'.res = Ok
            /\ Cardinality(DOMAIN manager'.notes)
                  < Cardinality(DOMAIN manager.notes)
            /\ Cardinality(DOMAIN manager'.notes) > 0
            /\ app.selected_note_index
                  = Cardinality(DOMAIN manager.notes) - 1)
            => app'.selected_note_index
                  = Cardinality(DOMAIN manager'.notes) - 1]_vars
C37_Witness ==
    /\ app.mode = "NoteList"
    /\ lastOp.op = "key"
    /\ lastOp.key = "delete_note"
    /\ calls = 2
    /\ DOMAIN manager.notes = {0}
    /\ file = to_string_pretty(SeedNotes)
    /\ app.selected_note_index = 0

\* C34: a key event of the App moves the updated_at of a note it keeps only
\* if it changes the title, the content or the pin of that note.
C34_UpdatedAtMovesOnChange ==
    [][\A id \in DOMAIN manager.notes \cap DOMAIN manager'.notes :
          manager'.notes[id].updated_at # manager.notes[id].updated_at
             => \/ manager'.notes[id].title # manager.notes[id].title
                \/ manager'.notes[id].content # manager.notes[id].content
                \/ manager'.notes[id].pinned # manager.notes[id].pinned]_vars

\* the notes a reader holding the key of m decodes from f, a missing file
\* counting as the empty mapping
BackingNotes(m, f) ==
    IF ~exists(f) THEN << >>
    ELSE IF is_file_encrypted(f)
    THEN LET d == decrypt(m.key, from_str_encrypted(f))
         IN  IF d.res = Ok /\ from_str_notes(d.data).ok
             THEN from_str_notes(d.data).notes
             ELSE [undecodable |-> TRUE]
    ELSE IF from_str_notes(f).ok THEN from_str_notes(f).notes
    ELSE [undecodable |-> TRUE]

\* C38: whenever the running App is in NoteList mode, the notes decodable
\* from the backing file are the notes of the store.
C38_FileEqualsMemoryInList ==
    (app.mode = "NoteList" /\ ~app.failed)
       => BackingNotes(manager, file) = manager.notes

\* the text areas of the editor hold the title and the content stored for
\* the note being edited
EditorEqualsStored ==
    /\ app.current_note_id # None
    /\ app.current_note_id.some \in DOMAIN manager.notes
    /\ app.title_textarea = manager.notes[app.current_note_id.some].title
    /\ app.content_textarea = manager.notes[app.current_note_id.some].content

\* C39: with auto_save disabled, save_and_exit in EditingNote leads to
\* ConfirmingUnsavedExit if the editor differs from the stored note, and
\* to NoteList if it equals it.
C39_PromptIffEditorDiffers ==
    [][(/\ ~config.auto_save
        /\ app.mode = "EditingNote"
        /\ lastOp'.key = "save_and_exit"
        /\ lastOp'.res = Ok)
          => /\ app'.mode = "ConfirmingUnsavedExit" <=> ~EditorEqualsStored
             /\ EditorEqualsStored => app'.mode = "NoteList"]_vars

====
